---------------------------- MODULE Spec2Model ----------------------------
(***************************************************************************)
(* Tempomat: a cruise-control simulation.  A vehicle plant (car_plant.py), *)
(* a PID controller (pid_controller.py), a Mamdani fuzzy controller        *)
(* (fuzzy_controller.py), the simulation loop that drives one plant with   *)
(* one controller (simulation.py) and the web variant (control_system.py): *)
(* its PID, its fuzzy lookup tables, run_simulation and the /simulate      *)
(* route served by concurrent threads.                                     *)
(*                                                                         *)
(* Python floats are modelled as exact rationals <<n, d>> in lowest terms  *)
(* with d > 0; rounding error and the non-finite values (inf, nan) are     *)
(* outside the model.                                                      *)
(***************************************************************************)
EXTENDS Integers, Sequences, FiniteSets, TLC

VARIABLES
    v,        \* CarPlant.v: the plant speed [m/s]
    params,   \* CarPlant.params: VehicleParams (mass, F_max, c_r, name)
    pid,      \* PIDController: params (Kp, Ki, Kd, u_min, u_max), integral, e_prev
    webpid,   \* control_system.PID: Kp, Ki, Kd, dt, u_max, integral, prev_error
    fuzzy,    \* FuzzyCruiseController: params, e_prev
    twin,     \* a freshly constructed controller/plant pair of the same parameters
    sim,      \* the activation record of simulate(): position, arguments, arrays
    last,     \* the last call made: operation, arguments, state before, result
    ncalls,   \* number of calls made so far
    web       \* the control_system.py process: its module globals and its requests

vars == <<v, params, pid, webpid, fuzzy, twin, sim, last, ncalls, web>>

-----------------------------------------------------------------------------
(* Bounds of the model *)

\* calls made to the plant and its factory in one behaviour
MaxPlantCalls == 3

-----------------------------------------------------------------------------
(* Rational arithmetic: the float operators +, -, *, /, <, <= of the source *)

Abs(n) == IF n < 0 THEN -n ELSE n

\* Euclid's algorithm on naturals
Euclid[a \in Nat, b \in Nat] == IF b = 0 THEN a ELSE Euclid[b, a % b]

GCD(a, b) == Euclid[a, b]

\* the rational n/d (d # 0) in lowest terms with a positive denominator
Rat(n, d) ==
    LET g == GCD(Abs(n), Abs(d))
        s == IF d < 0 THEN -1 ELSE 1
    IN  <<(s * n) \div g, (s * d) \div g>>

Num(x) == x[1]
Den(x) == x[2]
Int2R(n) == <<n, 1>>
Zero == <<0, 1>>
One == <<1, 1>>

RNeg(x) == <<-x[1], x[2]>>

RAdd(x, y) ==
    LET g == GCD(x[2], y[2])
    IN  Rat(x[1] * (y[2] \div g) + y[1] * (x[2] \div g), x[2] * (y[2] \div g))

RSub(x, y) == RAdd(x, RNeg(y))

RMul(x, y) ==
    LET g1 == GCD(Abs(x[1]), y[2])
        g2 == GCD(Abs(y[1]), x[2])
    IN  <<(x[1] \div g1) * (y[1] \div g2), (x[2] \div g2) * (y[2] \div g1)>>

\* x / y for y # 0
RDiv(x, y) == RMul(x, IF y[1] < 0 THEN <<-y[2], -y[1]>> ELSE <<y[2], y[1]>>)

\* a/b - c/d for b, d > 0 and g a common divisor of b and d: its sign is the
\* sign of the difference of the cross products
CrossDiff(a, b, c, d, g) == a * (d \div g) - c * (b \div g)

RLt(x, y) == CrossDiff(x[1], x[2], y[1], y[2], GCD(x[2], y[2])) < 0
RLe(x, y) == CrossDiff(x[1], x[2], y[1], y[2], GCD(x[2], y[2])) <= 0

RMax(x, y) == IF RLt(x, y) THEN y ELSE x
RMin(x, y) == IF RLt(y, x) THEN y ELSE x

\* numpy.clip(x, lo, hi) = minimum(maximum(x, lo), hi)
Clip(x, lo, hi) == RMin(RMax(x, lo), hi)

-----------------------------------------------------------------------------
(* car_plant.py *)

VehicleParams(mass, F_max, c_r, name) ==
    [mass |-> mass, F_max |-> F_max, c_r |-> c_r, name |-> name]

FerrariCar == VehicleParams(Int2R(1400), Int2R(7000), Int2R(40), "Ferrari")
Motorcycle == VehicleParams(Int2R(250), Int2R(3000), Int2R(30), "Motocykl")
TankCar == VehicleParams(Int2R(30000), Int2R(15000), Int2R(200), "Czolg")

\* CarPlant.step without the saturation of u
CarPlantStepNoClip(p, vv, u, dt) ==
    LET F_tr == RMul(u, p.F_max)
        F_res == RMul(p.c_r, vv)
        a == RDiv(RSub(F_tr, F_res), p.mass)
        v1 == RAdd(vv, RMul(a, dt))
    IN  IF RLt(v1, Zero) THEN Zero ELSE v1

\* CarPlant.step: the new speed of a plant with parameters p and speed vv
CarPlantStep(p, vv, u, dt) ==
    LET uc == Clip(u, Zero, One)
        F_tr == RMul(uc, p.F_max)
        F_res == RMul(p.c_r, vv)
        a == RDiv(RSub(F_tr, F_res), p.mass)
        v1 == RAdd(vv, RMul(a, dt))
    IN  IF RLt(v1, Zero) THEN Zero ELSE v1

\* CarPlant.__init__: a new plant is at rest
CarPlantInit == Zero

\* CarPlant.reset(v0): self.v = float(v0)
CarPlantReset(v0) == v0

\* CarPlant.get_speed
get_speed(vv) == vv

\* str.lower() on the characters a vehicle name is made of; a name is a
\* sequence of characters ("l/" and "L/" stand for the Polish l with stroke)
LowerChar(c) ==
    CASE c = "A" -> "a" [] c = "C" -> "c" [] c = "E" -> "e" [] c = "F" -> "f"
      [] c = "G" -> "g" [] c = "I" -> "i" [] c = "K" -> "k" [] c = "L" -> "l"
      [] c = "M" -> "m" [] c = "N" -> "n" [] c = "O" -> "o" [] c = "R" -> "r"
      [] c = "T" -> "t" [] c = "Y" -> "y" [] c = "Z" -> "z" [] c = "L/" -> "l/"
      [] OTHER -> c

lower(name) == [i \in 1..Len(name) |-> LowerChar(name[i])]

\* create_vehicle without the lower-casing of the name
create_vehicle_case_sensitive(model_name) ==
    LET name == model_name
    IN  IF name = <<"f","e","r","r","a","r","i">> THEN FerrariCar
        ELSE IF name \in {<<"m","o","t","o","r","c","y","c","l","e">>,
                          <<"m","o","t","o","c","y","k","l">>} THEN Motorcycle
        ELSE IF name \in {<<"t","a","n","k">>, <<"c","z","o","l","g">>,
                          <<"c","z","o","l/","g">>} THEN TankCar
        ELSE FerrariCar

\* create_vehicle(model_name): the parameters of the plant it returns
create_vehicle_params(model_name) ==
    LET name == lower(model_name)
    IN  IF name = <<"f","e","r","r","a","r","i">> THEN FerrariCar
        ELSE IF name \in {<<"m","o","t","o","r","c","y","c","l","e">>,
                          <<"m","o","t","o","c","y","k","l">>} THEN Motorcycle
        ELSE IF name \in {<<"t","a","n","k">>, <<"c","z","o","l","g">>,
                          <<"c","z","o","l/","g">>} THEN TankCar
        ELSE FerrariCar

-----------------------------------------------------------------------------
(* Inputs of the plant operations *)

\* control signals passed to CarPlant.step: below, inside and above [0, 1]
PlantU == {<<-1, 1>>, Zero, <<1, 2>>, One, <<2, 1>>}
\* time steps passed to CarPlant.step
PlantDt == {<<-1, 1>>, <<1, 2>>, One}
\* initial speeds passed to CarPlant.reset
PlantV0 == {<<-1, 1>>, Zero, <<2, 1>>}
\* parameters of the plants constructed directly from VehicleParams
PlantParams ==
    {VehicleParams(Int2R(m), Int2R(2), Int2R(c), "test") : m \in {1, 2}, c \in {0, 1}}
\* names passed to create_vehicle
VehicleNames ==
    { <<"f","e","r","r","a","r","i">>, <<"F","e","r","r","a","r","i">>,
      <<"F","E","R","R","A","R","I">>,
      <<"m","o","t","o","r","c","y","c","l","e">>,
      <<"M","O","T","O","R","C","Y","C","L","E">>,
      <<"m","o","t","o","c","y","k","l">>, <<"M","o","t","o","c","y","k","l">>,
      <<"t","a","n","k">>, <<"T","A","N","K">>,
      <<"c","z","o","l","g">>, <<"C","z","o","l","g">>,
      <<"c","z","o","l/","g">>, <<"C","Z","O","L/","G">>,
      <<>>, <<"f","i","a","t">>, <<"t","a","n","k","s">>, <<"T","i","r">> }

-----------------------------------------------------------------------------
(* pid_controller.py *)

\* the anti-windup band of PIDController.step: np.clip(integral, -100.0, 100.0)
PIDIntegralLimit == 100

\* the None of an optional argument (no rational is the empty tuple)
None == <<>>

PIDParams(Kp, Ki, Kd, u_min, u_max) ==
    [Kp |-> Kp, Ki |-> Ki, Kd |-> Kd, u_min |-> u_min, u_max |-> u_max]

\* the defaults of the PIDParams dataclass
PIDParamsDefault == PIDParams(<<4, 5>>, <<2, 5>>, <<1, 20>>, Zero, One)

\* PIDController.__init__(params)
PIDController(p) ==
    [Kp |-> p.Kp, Ki |-> p.Ki, Kd |-> p.Kd, u_min |-> p.u_min, u_max |-> p.u_max,
     integral |-> Zero, e_prev |-> Zero]

\* the parameters a controller holds
PIDParamsOf(c) == PIDParams(c.Kp, c.Ki, c.Kd, c.u_min, c.u_max)

\* a reset that forgets the integral but keeps e_prev
PIDResetKeepsEPrev(c) == [c EXCEPT !.integral = Zero]

\* PIDController.reset
PIDController_reset(c) == [c EXCEPT !.integral = Zero, !.e_prev = Zero]

\* PIDController.step with the anti-windup clamp of the integral left out
PIDStepNoAntiWindup(c, e, dt) ==
    LET integral == RAdd(c.integral, RMul(e, dt))
        de == IF RLt(Zero, dt) THEN RDiv(RSub(e, c.e_prev), dt) ELSE Zero
        u == RAdd(RAdd(RMul(c.Kp, e), RMul(c.Ki, integral)), RMul(c.Kd, de))
    IN  [c |-> [c EXCEPT !.integral = integral, !.e_prev = e],
         u |-> Clip(u, c.u_min, c.u_max)]

\* PIDController.step with the saturation of the output left out
PIDStepNoSaturation(c, e, dt) ==
    LET integral == Clip(RAdd(c.integral, RMul(e, dt)),
                         Int2R(-PIDIntegralLimit), Int2R(PIDIntegralLimit))
        de == IF RLt(Zero, dt) THEN RDiv(RSub(e, c.e_prev), dt) ELSE Zero
        u == RAdd(RAdd(RMul(c.Kp, e), RMul(c.Ki, integral)), RMul(c.Kd, de))
    IN  [c |-> [c EXCEPT !.integral = integral, !.e_prev = e], u |-> u]

\* PIDController.step that divides by every dt other than 0
PIDStepDividesByNegativeDt(c, e, dt) ==
    LET integral == Clip(RAdd(c.integral, RMul(e, dt)),
                         Int2R(-PIDIntegralLimit), Int2R(PIDIntegralLimit))
        de == IF dt # Zero THEN RDiv(RSub(e, c.e_prev), dt) ELSE Zero
        u == RAdd(RAdd(RMul(c.Kp, e), RMul(c.Ki, integral)), RMul(c.Kd, de))
    IN  [c |-> [c EXCEPT !.integral = integral, !.e_prev = e],
         u |-> Clip(u, c.u_min, c.u_max)]

\* PIDController.step whose proportional term takes the remembered error
PIDStepProportionalOnPrevious(c, e, dt) ==
    LET integral == Clip(RAdd(c.integral, RMul(e, dt)),
                         Int2R(-PIDIntegralLimit), Int2R(PIDIntegralLimit))
        de == IF RLt(Zero, dt) THEN RDiv(RSub(e, c.e_prev), dt) ELSE Zero
        u == RAdd(RAdd(RMul(c.Kp, c.e_prev), RMul(c.Ki, integral)), RMul(c.Kd, de))
    IN  [c |-> [c EXCEPT !.integral = integral, !.e_prev = e],
         u |-> Clip(u, c.u_min, c.u_max)]

\* PIDController.step(e, dt): the controller after the call and the value returned
PIDController_step(c, e, dt) ==
    LET integral == Clip(RAdd(c.integral, RMul(e, dt)),
                         Int2R(-PIDIntegralLimit), Int2R(PIDIntegralLimit))
        de == IF RLt(Zero, dt) THEN RDiv(RSub(e, c.e_prev), dt) ELSE Zero
        u == RAdd(RAdd(RMul(c.Kp, e), RMul(c.Ki, integral)), RMul(c.Kd, de))
    IN  [c |-> [c EXCEPT !.integral = integral, !.e_prev = e],
         u |-> Clip(u, c.u_min, c.u_max)]

\* a set_gains that takes an absent Ki as 0.0 instead of leaving Ki as it is
PIDSetGainsNoneIsZero(c, Kp, Ki, Kd) ==
    [c EXCEPT !.Kp = IF Kp # None THEN Kp ELSE @,
              !.Ki = IF Ki # None THEN Ki ELSE Zero,
              !.Kd = IF Kd # None THEN Kd ELSE @]

\* PIDController.set_gains(Kp, Ki, Kd): None leaves a gain as it is
PIDController_set_gains(c, Kp, Ki, Kd) ==
    [c EXCEPT !.Kp = IF Kp # None THEN Kp ELSE @,
              !.Ki = IF Ki # None THEN Ki ELSE @,
              !.Kd = IF Kd # None THEN Kd ELSE @]

\* PIDController.set_limits(u_min, u_max): None leaves a limit as it is
PIDController_set_limits(c, u_min, u_max) ==
    [c EXCEPT !.u_min = IF u_min # None THEN u_min ELSE @,
              !.u_max = IF u_max # None THEN u_max ELSE @]

-----------------------------------------------------------------------------
(* control_system.py: the PID of the web variant *)

\* the anti-windup band of PID.compute: np.clip(integral, -2000, 2000)
WebIntegralLimit == 2000

\* PID.__init__(Kp, Ki, Kd, dt, u_max)
WebPID(Kp, Ki, Kd, dt, u_max) ==
    [Kp |-> Kp, Ki |-> Ki, Kd |-> Kd, dt |-> dt, u_max |-> u_max,
     integral |-> Zero, prev_error |-> Zero]

\* PID.compute(sp, pv) for dt # 0: the controller after the call and the output
WebPID_compute(c, sp, pv) ==
    LET error == RSub(sp, pv)
        integral == Clip(RAdd(c.integral, RMul(error, c.dt)),
                         Int2R(-WebIntegralLimit), Int2R(WebIntegralLimit))
        derivative == RDiv(RSub(error, c.prev_error), c.dt)
        output == RAdd(RAdd(RMul(c.Kp, error), RMul(c.Ki, integral)),
                       RMul(c.Kd, derivative))
    IN  [c |-> [c EXCEPT !.integral = integral, !.prev_error = error],
         u |-> Clip(output, Zero, c.u_max)]

-----------------------------------------------------------------------------
(* fuzzy_controller.py *)

\* triangular_mf with the rising side divided by the width of the falling side
triangular_mf_one_slope(x, a, b, c) ==
    IF a = b /\ b = c THEN (IF x = a THEN One ELSE Zero)
    ELSE IF RLe(x, a) \/ RLe(c, x) THEN Zero
    ELSE IF x = b THEN One
    ELSE IF RLt(x, b) THEN RDiv(RSub(x, a), RSub(c, b))
    ELSE RDiv(RSub(c, x), RSub(c, b))

\* triangular_mf(x, a, b, c)
triangular_mf(x, a, b, c) ==
    IF a = b /\ b = c THEN (IF x = a THEN One ELSE Zero)
    ELSE IF RLe(x, a) \/ RLe(c, x) THEN Zero
    ELSE IF x = b THEN One
    ELSE IF RLt(x, b) THEN RDiv(RSub(x, a), RSub(b, a))
    ELSE RDiv(RSub(c, x), RSub(c, b))

\* the FuzzyParams dataclass; a range is a pair <<min, max>>
FuzzyParams(e_range, de_range, u_range, resolution) ==
    [e_range |-> e_range, de_range |-> de_range, u_range |-> u_range,
     resolution |-> resolution]

\* the default number of defuzzification points
DefaultResolution == 101

\* the defaults of the FuzzyParams dataclass
FuzzyParamsDefault ==
    FuzzyParams(<<Int2R(-10), Int2R(10)>>, <<Int2R(-3), Int2R(3)>>,
                <<Zero, One>>, DefaultResolution)

\* FuzzyCruiseController.__init__(params)
FuzzyCruiseController(p) == [params |-> p, e_prev |-> Zero]

\* np.linspace(lo, hi, n)[i + 1], for i in 0..n-1
linspace(lo, hi, n, i) ==
    IF n = 1 THEN lo
    ELSE RAdd(lo, RMul(Int2R(i), RDiv(RSub(hi, lo), Int2R(n - 1))))

\* self.u_universe[i + 1]
u_universe(p, i) == linspace(p.u_range[1], p.u_range[2], p.resolution, i)

\* input terms of half the width, (range / 8): adjacent terms only touch
InputTermsNarrow(x, lo, hi) ==
    LET width == RDiv(RSub(hi, lo), Int2R(8))
        NB == lo
        NS == RDiv(lo, Int2R(2))
        Z == Zero
        PS == RDiv(hi, Int2R(2))
        PB == hi
    IN  [NB |-> triangular_mf(x, RSub(NB, width), NB, RAdd(NB, width)),
         NS |-> triangular_mf(x, RSub(NS, width), NS, RAdd(NS, width)),
         Z |-> triangular_mf(x, RSub(Z, width), Z, RAdd(Z, width)),
         PS |-> triangular_mf(x, RSub(PS, width), PS, RAdd(PS, width)),
         PB |-> triangular_mf(x, RSub(PB, width), PB, RAdd(PB, width))]

\* the memberships of x in the five input terms over the range <<lo, hi>>
\* (the body shared by _e_terms and _de_terms): a dict keyed by the term
InputTerms(x, lo, hi) ==
    LET width == RDiv(RSub(hi, lo), Int2R(4))
        NB == lo
        NS == RDiv(lo, Int2R(2))
        Z == Zero
        PS == RDiv(hi, Int2R(2))
        PB == hi
    IN  [NB |-> triangular_mf(x, RSub(NB, width), NB, RAdd(NB, width)),
         NS |-> triangular_mf(x, RSub(NS, width), NS, RAdd(NS, width)),
         Z |-> triangular_mf(x, RSub(Z, width), Z, RAdd(Z, width)),
         PS |-> triangular_mf(x, RSub(PS, width), PS, RAdd(PS, width)),
         PB |-> triangular_mf(x, RSub(PB, width), PB, RAdd(PB, width))]

\* FuzzyCruiseController._e_terms
e_terms_of(p, e) == InputTerms(e, p.e_range[1], p.e_range[2])

\* FuzzyCruiseController._de_terms
de_terms_of(p, de) == InputTerms(de, p.de_range[1], p.de_range[2])

\* FuzzyCruiseController._u_mf(label, u)
u_mf(p, label, u) ==
    LET u_min == p.u_range[1]
        u_max == p.u_range[2]
        width == RDiv(RSub(u_max, u_min), Int2R(4))
        c == CASE label = "Z" -> u_min
               [] label = "S" -> RAdd(u_min, width)
               [] label = "M" -> RAdd(u_min, RMul(Int2R(2), width))
               [] label = "B" -> u_max
    IN  triangular_mf(u, RSub(c, width), c, RAdd(c, width))

\* the rule base of FuzzyCruiseController.step, in the order of the dict:
\* <<e term, de term, u term>>
rules ==
    << <<"PB", "NB", "M">>, <<"PB", "NS", "B">>, <<"PB", "Z", "B">>,
       <<"PB", "PS", "B">>, <<"PB", "PB", "M">>,
       <<"PS", "NB", "S">>, <<"PS", "NS", "M">>, <<"PS", "Z", "M">>,
       <<"PS", "PS", "B">>, <<"PS", "PB", "M">>,
       <<"Z", "NB", "Z">>, <<"Z", "NS", "S">>, <<"Z", "Z", "M">>,
       <<"Z", "PS", "S">>, <<"Z", "PB", "Z">>,
       <<"NS", "NB", "Z">>, <<"NS", "NS", "Z">>, <<"NS", "Z", "S">>,
       <<"NS", "PS", "S">>, <<"NS", "PB", "Z">>,
       <<"NB", "NB", "Z">>, <<"NB", "NS", "Z">>, <<"NB", "Z", "Z">>,
       <<"NB", "PS", "Z">>, <<"NB", "PB", "Z">> >>

\* the aggregation loop over the rules lo..hi, started from 0.0 for every
\* label: mu_out[u_label] = max(mu_out[u_label], min(e_terms[e_label],
\* de_terms[de_label])) (taken by halves: a maximum does not depend on the order)
RECURSIVE AggregateRules(_, _, _, _)
AggregateRules(e_terms, de_terms, lo, hi) ==
    IF lo = hi
    THEN LET activation == RMin(e_terms[rules[lo][1]], de_terms[rules[lo][2]])
         IN  [[Z |-> Zero, S |-> Zero, M |-> Zero, B |-> Zero]
                EXCEPT ![rules[lo][3]] = RMax(@, activation)]
    ELSE LET mid == (lo + hi) \div 2
             a == AggregateRules(e_terms, de_terms, lo, mid)
             b == AggregateRules(e_terms, de_terms, mid + 1, hi)
         IN  [Z |-> RMax(a.Z, b.Z), S |-> RMax(a.S, b.S),
              M |-> RMax(a.M, b.M), B |-> RMax(a.B, b.B)]

\* mu_out after the aggregation of all the rules
mu_out_of(e_terms, de_terms) == AggregateRules(e_terms, de_terms, 1, Len(rules))

\* the inner loop of the defuzzification: the aggregated membership of the
\* output point u
mu_at(p, mu_out, u) ==
    LET upd(label, mu) ==
            IF RLt(Zero, mu_out[label])
            THEN RMax(mu, RMin(mu_out[label], u_mf(p, label, u)))
            ELSE mu
    IN  upd("B", upd("M", upd("S", upd("Z", Zero))))

\* a centroid whose numerator adds the points unweighted: num += u; den += mu
CentroidTermUnweighted(u, mu) == <<u, mu>>

\* what the point u of membership mu adds: num += u * mu; den += mu
CentroidTerm(u, mu) == <<RMul(u, mu), mu>>

\* the defuzzification loop over u_universe[lo + 1 .. hi + 1]: the sums
\* <<num, den>> it adds up (summed by halves: the sums are exact, so the order
\* of the additions does not matter)
RECURSIVE CentroidSums(_, _, _, _)
CentroidSums(p, mu_out, lo, hi) ==
    IF lo > hi THEN <<Zero, Zero>>
    ELSE IF lo = hi
    THEN CentroidTerm(u_universe(p, lo), mu_at(p, mu_out, u_universe(p, lo)))
    ELSE LET mid == (lo + hi) \div 2
             a == CentroidSums(p, mu_out, lo, mid)
             b == CentroidSums(p, mu_out, mid + 1, hi)
         IN  <<RAdd(a[1], b[1]), RAdd(a[2], b[2])>>

\* a reset that leaves the memory as it is
FuzzyResetNothing(c) == c

\* FuzzyCruiseController.reset
FuzzyCruiseController_reset(c) == [c EXCEPT !.e_prev = Zero]

\* the end of step with 1.0 as the value returned when den == 0
DefuzzifyFallbackOne(sums) == IF sums[2] = Zero THEN One ELSE RDiv(sums[1], sums[2])

\* the end of step: 0.0 if den == 0, else num / den, for sums = <<num, den>>
Defuzzify(sums) == IF sums[2] = Zero THEN Zero ELSE RDiv(sums[1], sums[2])

\* FuzzyCruiseController.step(e, dt): the controller after the call and the
\* value returned
FuzzyCruiseController_step(c, e, dt) ==
    LET de == IF RLt(Zero, dt) THEN RDiv(RSub(e, c.e_prev), dt) ELSE Zero
        mu_out == mu_out_of(e_terms_of(c.params, e), de_terms_of(c.params, de))
    IN  [c |-> [c EXCEPT !.e_prev = e],
         u |-> Defuzzify(CentroidSums(c.params, mu_out, 0, c.params.resolution - 1))]

-----------------------------------------------------------------------------
(* The objects before any call *)

\* simulate() is not running and has never run
SimIdle == [pc |-> "idle"]

\* the control_system.py process before the module is imported
WebStart == [phase |-> "import"]

\* the PID the web variant's run_simulation builds for the 'fiat' defaults
WebPIDDefault ==
    WebPID(Int2R(300), Int2R(15), Int2R(50), <<3, 20>>, Int2R(2500))

\* the twin: controllers and a plant constructed afresh with the parameters of
\* the ones in use, which then receive the same calls; pid_dirty and
\* fuzzy_dirty say that the controller in use had memory when it was last
\* reset; u, v_arr and u_arr are the twin's locals in simulate()
FreshTwin(pidc, fuzzyc) ==
    [pid |-> PIDController(PIDParamsOf(pidc)), pid_dirty |-> FALSE,
     fuzzy |-> FuzzyCruiseController(fuzzyc.params), fuzzy_dirty |-> FALSE,
     v |-> CarPlantInit, u |-> Zero, v_arr |-> <<>>, u_arr |-> <<>>]

InitObjects ==
    /\ v = CarPlantInit
    /\ pid = PIDController(PIDParamsDefault)
    /\ webpid = WebPIDDefault
    /\ fuzzy = FuzzyCruiseController(FuzzyParamsDefault)
    /\ twin = FreshTwin(pid, fuzzy)
    /\ sim = SimIdle
    /\ last = [op |-> "init"]
    /\ ncalls = 0
    /\ web = WebStart

-----------------------------------------------------------------------------
(* The plant: CarPlant.reset, CarPlant.step, create_vehicle *)

CarPlant_reset(v0) ==
    /\ v' = CarPlantReset(v0)
    /\ last' = [op |-> "CarPlant.reset", v0 |-> v0]
    /\ ncalls' = ncalls + 1
    /\ UNCHANGED <<params, pid, webpid, fuzzy, twin, sim, web>>

CarPlant_step(u, dt) ==
    /\ v' = CarPlantStep(params, v, u, dt)
    /\ last' = [op |-> "CarPlant.step", u |-> u, dt |-> dt, v |-> v, ret |-> v']
    /\ ncalls' = ncalls + 1
    /\ UNCHANGED <<params, pid, webpid, fuzzy, twin, sim, web>>

\* vehicle = create_vehicle(name): the plant is replaced by the one returned
create_vehicle(name) ==
    /\ params' = create_vehicle_params(name)
    /\ v' = CarPlantInit
    /\ last' = [op |-> "create_vehicle", name |-> name]
    /\ ncalls' = ncalls + 1
    /\ UNCHANGED <<pid, webpid, fuzzy, twin, sim, web>>

InitPlant == InitObjects /\ params \in PlantParams

NextPlant ==
    \/ \E v0 \in PlantV0 : ncalls < MaxPlantCalls /\ CarPlant_reset(v0)
    \/ \E u \in PlantU, dt \in PlantDt : ncalls < MaxPlantCalls /\ CarPlant_step(u, dt)
    \/ \E name \in VehicleNames : ncalls < MaxPlantCalls /\ create_vehicle(name)

SpecPlant == InitPlant /\ [][NextPlant]_vars

-----------------------------------------------------------------------------
(* Claims about the plant *)

\* C1: in every state reachable by CarPlant.reset(v0) and CarPlant.step(u, dt)
\* calls, the plant speed read by get_speed is >= 0.
C1_SpeedNeverNegative == RLe(Zero, get_speed(v))

\* the speed the claim C2 gives for an effective control uu in [0, 1]:
\* max(0, v + (uu * F_max - c_r * v) / mass * dt)
C2_Expected(p, vv, uu, dt) ==
    RMax(Zero, RAdd(vv, RMul(RDiv(RSub(RMul(uu, p.F_max), RMul(p.c_r, vv)), p.mass), dt)))

\* C2: step(u, dt) with u > 1 gives the speed of step(1, dt), with u < 0 the
\* speed of step(0, dt), and for u in [0, 1] the speed
\* max(0, v + (u * F_max - c_r * v) / mass * dt).
C2_StepClampsControl ==
    last.op = "CarPlant.step" =>
        /\ RLt(One, last.u) => v = C2_Expected(params, last.v, One, last.dt)
        /\ RLt(last.u, Zero) => v = C2_Expected(params, last.v, Zero, last.dt)
        /\ (RLe(Zero, last.u) /\ RLe(last.u, One)) =>
               v = C2_Expected(params, last.v, last.u, last.dt)
        /\ last.ret = v

\* a step with u > 1 and dt > 0 that accelerated the plant
C2_Witness ==
    /\ last.op = "CarPlant.step"
    /\ RLt(One, last.u)
    /\ RLt(Zero, last.dt)
    /\ RLt(last.v, v)

\* two names are the same up to the case of their letters
C10_SameIgnoringCase(a, b) ==
    /\ Len(a) = Len(b)
    /\ \A i \in 1..Len(a) : LowerChar(a[i]) = LowerChar(b[i])

\* C10: create_vehicle(name) matches case-insensitively: the Motorcycle
\* preset for 'motorcycle'/'motocykl', the Tank preset for
\* 'tank'/'czolg'/'czol/g', and the Ferrari preset (mass 1400, F_max 7000,
\* c_r 40) for 'ferrari' and for every other name; the plant starts at speed 0.
C10_FactoryFallsBack ==
    last.op = "create_vehicle" =>
        /\ v = Zero
        /\ IF \E w \in {<<"m","o","t","o","r","c","y","c","l","e">>,
                        <<"m","o","t","o","c","y","k","l">>} :
                 C10_SameIgnoringCase(last.name, w)
           THEN params = VehicleParams(Int2R(250), Int2R(3000), Int2R(30), "Motocykl")
           ELSE IF \E w \in {<<"t","a","n","k">>, <<"c","z","o","l","g">>,
                             <<"c","z","o","l/","g">>} :
                      C10_SameIgnoringCase(last.name, w)
           THEN params = VehicleParams(Int2R(30000), Int2R(15000), Int2R(200), "Czolg")
           ELSE /\ params.mass = Int2R(1400)
                /\ params.F_max = Int2R(7000)
                /\ params.c_r = Int2R(40)

\* an unknown name was given and the Ferrari preset came back, at rest
C10_Witness ==
    /\ last.op = "create_vehicle"
    /\ last.name = <<"f","i","a","t">>
    /\ params = FerrariCar
    /\ v = Zero

-----------------------------------------------------------------------------
(* The PID controllers: PIDController.reset, step, set_gains, set_limits and
   PID.compute of the web variant *)

\* calls made to the PID controllers in one behaviour
MaxPIDCalls == 3

\* errors passed to PIDController.step
PIDErrors == {Int2R(-150), <<1, 2>>, Int2R(150)}
\* time steps passed to PIDController.step
PIDDts == {Int2R(-1), Zero, <<1, 2>>, One}
\* arguments of set_gains
PIDKpArgs == {None, Int2R(2)}
PIDKiArgs == {None, Zero}
PIDKdArgs == {None, One}
\* arguments of set_limits
PIDUminArgs == {None, Int2R(2)}
PIDUmaxArgs == {None, <<1, 2>>, Int2R(3)}
\* parameters the PID controllers are constructed with
PIDParamsIn == {PIDParamsDefault, PIDParams(One, One, Zero, Int2R(-1), One)}
\* setpoints and measured speeds passed to PID.compute
WebSetpoints == {Zero, Int2R(20000)}
WebSpeeds == {Zero, Int2R(40000)}

PID_reset ==
    /\ pid' = PIDController_reset(pid)
    /\ twin' = [twin EXCEPT !.pid = PIDController(PIDParamsOf(pid)),
                            !.pid_dirty = (pid.integral # Zero \/ pid.e_prev # Zero)]
    /\ last' = [op |-> "PID.reset", c |-> pid]
    /\ ncalls' = ncalls + 1
    /\ UNCHANGED <<v, params, webpid, fuzzy, sim, web>>

PID_step(e, dt) ==
    \E r \in {PIDController_step(pid, e, dt)},
       rt \in {PIDController_step(twin.pid, e, dt)} :
        /\ pid' = r.c
        /\ twin' = [twin EXCEPT !.pid = rt.c]
        /\ last' = [op |-> "PID.step", e |-> e, dt |-> dt, c |-> pid,
                    ret |-> r.u, twin_ret |-> rt.u]
        /\ ncalls' = ncalls + 1
        /\ UNCHANGED <<v, params, webpid, fuzzy, sim, web>>

PID_set_gains(Kp, Ki, Kd) ==
    /\ pid' = PIDController_set_gains(pid, Kp, Ki, Kd)
    /\ twin' = [twin EXCEPT !.pid = PIDController_set_gains(@, Kp, Ki, Kd)]
    /\ last' = [op |-> "PID.set_gains", Kp |-> Kp, Ki |-> Ki, Kd |-> Kd, c |-> pid]
    /\ ncalls' = ncalls + 1
    /\ UNCHANGED <<v, params, webpid, fuzzy, sim, web>>

PID_set_limits(u_min, u_max) ==
    /\ pid' = PIDController_set_limits(pid, u_min, u_max)
    /\ twin' = [twin EXCEPT !.pid = PIDController_set_limits(@, u_min, u_max)]
    /\ last' = [op |-> "PID.set_limits", u_min |-> u_min, u_max |-> u_max, c |-> pid]
    /\ ncalls' = ncalls + 1
    /\ UNCHANGED <<v, params, webpid, fuzzy, sim, web>>

PID_compute(sp, pv) ==
    \E r \in {WebPID_compute(webpid, sp, pv)} :
        /\ webpid' = r.c
        /\ last' = [op |-> "PID.compute", sp |-> sp, pv |-> pv, c |-> webpid,
                    ret |-> r.u]
        /\ ncalls' = ncalls + 1
        /\ UNCHANGED <<v, params, pid, fuzzy, twin, sim, web>>

InitPID ==
    /\ v = CarPlantInit
    /\ params = FerrariCar
    /\ pid \in {PIDController(p) : p \in PIDParamsIn}
    /\ webpid = WebPIDDefault
    /\ fuzzy = FuzzyCruiseController(FuzzyParamsDefault)
    /\ twin = FreshTwin(pid, fuzzy)
    /\ sim = SimIdle
    /\ last = [op |-> "init"]
    /\ ncalls = 0
    /\ web = WebStart

NextPID ==
    \/ ncalls < MaxPIDCalls /\ PID_reset
    \/ \E e \in PIDErrors, dt \in PIDDts : ncalls < MaxPIDCalls /\ PID_step(e, dt)
    \/ \E Kp \in PIDKpArgs, Ki \in PIDKiArgs, Kd \in PIDKdArgs :
          ncalls < MaxPIDCalls /\ PID_set_gains(Kp, Ki, Kd)
    \/ \E u_min \in PIDUminArgs, u_max \in PIDUmaxArgs :
          ncalls < MaxPIDCalls /\ PID_set_limits(u_min, u_max)
    \/ \E sp \in WebSetpoints, pv \in WebSpeeds :
          ncalls < MaxPIDCalls /\ PID_compute(sp, pv)

SpecPID == InitPID /\ [][NextPID]_vars

-----------------------------------------------------------------------------
(* Claims about the PID controllers *)

\* C3: after any sequence of reset, set_gains, set_limits and step calls,
\* step(e, dt) returns u with u_min <= u <= u_max for the limits in force at
\* that call, provided u_min <= u_max.
C3_OutputWithinLimits ==
    (last.op = "PID.step" /\ RLe(last.c.u_min, last.c.u_max)) =>
        /\ RLe(last.c.u_min, last.ret)
        /\ RLe(last.ret, last.c.u_max)

\* a step that saturated at an upper limit set by set_limits
C3_Witness ==
    /\ last.op = "PID.step"
    /\ last.c.u_min = Int2R(2)
    /\ last.c.u_max = Int2R(3)
    /\ last.ret = Int2R(3)

\* |x| <= n
C4_Within(x, n) == RLe(Int2R(-n), x) /\ RLe(x, Int2R(n))

\* the derivative term of a PIDController.step call
C4_Derivative(c, e, dt) ==
    IF RLt(Zero, dt) THEN RDiv(RSub(e, c.e_prev), dt) ELSE Zero

\* C4: |integral| <= 100 after every PIDController.step and |integral| <= 2000
\* after every PID.compute; the stored integral is the clamped sum, and the
\* clamped value is the one the output is computed from.
C4_IntegralInBand ==
    /\ C4_Within(pid.integral, 100)
    /\ C4_Within(webpid.integral, 2000)
    /\ last.op = "PID.step" =>
         /\ pid.integral =
              Clip(RAdd(last.c.integral, RMul(last.e, last.dt)), Int2R(-100), Int2R(100))
         /\ last.ret =
              Clip(RAdd(RAdd(RMul(pid.Kp, last.e), RMul(pid.Ki, pid.integral)),
                        RMul(pid.Kd, C4_Derivative(last.c, last.e, last.dt))),
                   pid.u_min, pid.u_max)
    /\ last.op = "PID.compute" =>
         /\ webpid.integral =
              Clip(RAdd(last.c.integral, RMul(RSub(last.sp, last.pv), webpid.dt)),
                   Int2R(-2000), Int2R(2000))
         /\ last.ret =
              Clip(RAdd(RAdd(RMul(webpid.Kp, RSub(last.sp, last.pv)),
                             RMul(webpid.Ki, webpid.integral)),
                        RMul(webpid.Kd,
                             RDiv(RSub(RSub(last.sp, last.pv), last.c.prev_error),
                                  webpid.dt))),
                   Zero, webpid.u_max)

\* a step that started from the clamped integral 100 and was clamped again,
\* with an output strictly inside the limits that shows which integral was
\* used, while the web PID's integral sits at its bound too
C4_Witness ==
    /\ last.op = "PID.step"
    /\ last.c.integral = Int2R(100)
    /\ RLt(Int2R(100), RAdd(last.c.integral, RMul(last.e, last.dt)))
    /\ pid.integral = Int2R(100)
    /\ webpid.integral = Int2R(2000)

-----------------------------------------------------------------------------
(* Controllers that are reset and used again: PIDController and
   FuzzyCruiseController side by side with their fresh twins *)

\* calls made to the two controllers in one behaviour
MaxResetCalls == 5

\* FuzzyParams(resolution=5): the default ranges, five defuzzification points
FuzzyParamsCoarse ==
    FuzzyParams(<<Int2R(-10), Int2R(10)>>, <<Int2R(-3), Int2R(3)>>,
                <<Zero, One>>, 5)

\* FuzzyParams((-8, 8), (-4, 4), (0, 2), 6): other ranges, six points
FuzzyParamsOther ==
    FuzzyParams(<<Int2R(-8), Int2R(8)>>, <<Int2R(-4), Int2R(4)>>,
                <<Zero, Int2R(2)>>, 6)

\* parameters the fuzzy controllers are constructed with
FuzzyParamsIn == {FuzzyParamsCoarse, FuzzyParamsOther}

\* errors and time steps of the calls
ResetPIDErrors == {<<1, 2>>, Int2R(150)}
ResetPIDDts == {Zero, One}
ResetFuzzyErrors == {Int2R(2), Int2R(5)}
ResetFuzzyDts == {One}

Fuzzy_reset ==
    /\ fuzzy' = FuzzyCruiseController_reset(fuzzy)
    /\ twin' = [twin EXCEPT !.fuzzy = FuzzyCruiseController(fuzzy.params),
                            !.fuzzy_dirty = (fuzzy.e_prev # Zero)]
    /\ last' = [op |-> "Fuzzy.reset", c |-> fuzzy]
    /\ ncalls' = ncalls + 1
    /\ UNCHANGED <<v, params, pid, webpid, sim, web>>

Fuzzy_step(e, dt) ==
    \E r \in {FuzzyCruiseController_step(fuzzy, e, dt)},
       rt \in {FuzzyCruiseController_step(twin.fuzzy, e, dt)} :
        /\ fuzzy' = r.c
        /\ twin' = [twin EXCEPT !.fuzzy = rt.c]
        /\ last' = [op |-> "Fuzzy.step", e |-> e, dt |-> dt, c |-> fuzzy,
                    ret |-> r.u, twin_ret |-> rt.u]
        /\ ncalls' = ncalls + 1
        /\ UNCHANGED <<v, params, pid, webpid, sim, web>>

InitReset ==
    /\ v = CarPlantInit
    /\ params = FerrariCar
    /\ pid \in {PIDController(p) : p \in PIDParamsIn}
    /\ webpid = WebPIDDefault
    /\ fuzzy \in {FuzzyCruiseController(p) : p \in FuzzyParamsIn}
    /\ twin = FreshTwin(pid, fuzzy)
    /\ sim = SimIdle
    /\ last = [op |-> "init"]
    /\ ncalls = 0
    /\ web = WebStart

NextReset ==
    \/ ncalls < MaxResetCalls /\ PID_reset
    \/ \E e \in ResetPIDErrors, dt \in ResetPIDDts :
          ncalls < MaxResetCalls /\ PID_step(e, dt)
    \/ ncalls < MaxResetCalls /\ Fuzzy_reset
    \/ \E e \in ResetFuzzyErrors, dt \in ResetFuzzyDts :
          ncalls < MaxResetCalls /\ Fuzzy_step(e, dt)

SpecReset == InitReset /\ [][NextReset]_vars

\* C5: after reset(), the output of the next step(e, dt), and of every
\* following step, does not depend on the calls made before the reset: it is
\* the output of a freshly constructed controller with the same parameters
\* given the same calls; for PIDController and for FuzzyCruiseController.
C5_ResetForgetsHistory ==
    /\ last.op = "PID.step" => last.ret = last.twin_ret
    /\ last.op = "Fuzzy.step" => last.ret = last.twin_ret

\* both controllers had memory when they were reset, and a fuzzy step after
\* the reset gave a non-zero output
C5_Witness ==
    /\ twin.pid_dirty
    /\ twin.fuzzy_dirty
    /\ pid.e_prev = Zero
    /\ last.op = "Fuzzy.step"
    /\ last.ret # Zero

-----------------------------------------------------------------------------
(* simulation.py: simulate(vehicle, controller, v_set, t_sim, dt) *)

\* top-level calls (earlier steps on the objects, simulate runs) in one behaviour
MaxSimCalls == 2

\* int(x) with the +1 of the web variant's N = int(T_sim / dt) + 1
py_int_plus_one(x) ==
    (IF x[1] >= 0 THEN x[1] \div x[2] ELSE -((-x[1]) \div x[2])) + 1

\* int(x) of a float: truncation towards zero
py_int(x) == IF x[1] >= 0 THEN x[1] \div x[2] ELSE -((-x[1]) \div x[2])

\* np.linspace(0.0, t_sim, steps) for steps >= 0
t_arr_of(t_sim, steps) == [k \in 1..steps |-> linspace(Zero, t_sim, steps, k - 1)]

\* np.zeros(steps)
zeros(steps) == [k \in 1..steps |-> Zero]

\* np.full(steps, x)
full(steps, x) == [k \in 1..steps |-> x]

\* the error with the operands exchanged
SimErrorSwapped(v_set, vv) == RSub(vv, v_set)

\* e = v_set - v
SimError(v_set, vv) == RSub(v_set, vv)

\* controller.reset() on the controller passed in (kind says which it is)
SimReset(kind, c) ==
    IF kind = "pid" THEN PIDController_reset(c) ELSE FuzzyCruiseController_reset(c)

\* controller.step(e, dt) on the controller passed in
SimStep(kind, c, e, dt) ==
    IF kind = "pid" THEN PIDController_step(c, e, dt)
    ELSE FuzzyCruiseController_step(c, e, dt)

\* the controller simulate() was given
SimController(kind) == IF kind = "pid" THEN pid ELSE fuzzy

\* the twin of the controller simulate() was given, constructed afresh
SimFreshController(kind) ==
    IF kind = "pid" THEN PIDController(PIDParamsOf(pid))
    ELSE FuzzyCruiseController(fuzzy.params)

\* arguments of simulate
SimKinds == {"pid", "fuzzy"}
SimVSets == {<<1, 2>>, Int2R(2)}
SimTSims == {Int2R(-1), Zero, <<3, 2>>}
SimDts == {<<-1, 2>>, Zero, <<1, 2>>, One}
\* plants and controllers simulate is called with
SimPlantParams ==
    {VehicleParams(One, Int2R(2), One, "test"), VehicleParams(Int2R(2), Int2R(2), Zero, "test")}
\* earlier calls on the objects
SimEarlierU == {One}
SimEarlierV0 == {Int2R(2)}
SimEarlierErrors == {Int2R(3)}
SimEarlierDts == {One}

SimRunning == sim.pc \in {"loop", "plant"}

\* lines 60-69: the resets, the step count and the arrays; a zero dt raises
\* ZeroDivisionError at int(t_sim / dt) and a negative step count raises
\* ValueError in np.linspace, both after the resets
simulate_begin(kind, v_set, t_sim, dt) ==
    LET steps == IF dt = Zero THEN -1 ELSE py_int(RDiv(t_sim, dt))
        raised == dt = Zero \/ steps < 0
        n == IF raised THEN 0 ELSE steps
        c0 == SimController(kind)
        dirty == \/ v # Zero
                 \/ c0.e_prev # Zero
                 \/ (kind = "pid" /\ c0.integral # Zero)
    IN  /\ ~SimRunning
        /\ v' = CarPlantReset(Zero)
        /\ pid' = IF kind = "pid" THEN SimReset(kind, pid) ELSE pid
        /\ fuzzy' = IF kind = "fuzzy" THEN SimReset(kind, fuzzy) ELSE fuzzy
        /\ twin' = [twin EXCEPT
                      !.v = CarPlantReset(Zero),
                      !.pid = IF kind = "pid"
                              THEN SimReset(kind, SimFreshController(kind)) ELSE @,
                      !.fuzzy = IF kind = "fuzzy"
                                THEN SimReset(kind, SimFreshController(kind)) ELSE @,
                      !.u = Zero, !.v_arr = zeros(n), !.u_arr = zeros(n)]
        /\ sim' = [pc |-> IF raised THEN "raised" ELSE "loop",
                   exc |-> IF dt = Zero THEN "ZeroDivisionError"
                           ELSE IF steps < 0 THEN "ValueError" ELSE "",
                   kind |-> kind, v_set |-> v_set, t_sim |-> t_sim, dt |-> dt,
                   dirty |-> dirty, steps |-> n, i |-> 0, u |-> Zero,
                   t_arr |-> t_arr_of(t_sim, n), v_arr |-> zeros(n),
                   u_arr |-> zeros(n), v_set_arr |-> full(n, v_set),
                   calls |-> << [f |-> "vehicle.reset", v0 |-> Zero],
                                [f |-> "controller.reset"] >>]
        /\ last' = [op |-> "simulate"]
        /\ ncalls' = ncalls + 1
        /\ UNCHANGED <<params, webpid, web>>

\* lines 72-76 of iteration i: v = vehicle.get_speed(); e = v_set - v;
\* u = controller.step(e, dt)
simulate_controller ==
    /\ sim.pc = "loop"
    /\ sim.i < sim.steps
    /\ \E e \in {SimError(sim.v_set, get_speed(v))},
          et \in {SimError(sim.v_set, get_speed(twin.v))} :
       \E r \in {SimStep(sim.kind, SimController(sim.kind), e, sim.dt)},
          rt \in {SimStep(sim.kind, IF sim.kind = "pid" THEN twin.pid ELSE twin.fuzzy,
                          et, sim.dt)} :
        /\ pid' = IF sim.kind = "pid" THEN r.c ELSE pid
        /\ fuzzy' = IF sim.kind = "fuzzy" THEN r.c ELSE fuzzy
        /\ twin' = [twin EXCEPT !.pid = IF sim.kind = "pid" THEN rt.c ELSE @,
                                !.fuzzy = IF sim.kind = "fuzzy" THEN rt.c ELSE @,
                                !.u = rt.u]
        /\ sim' = [sim EXCEPT !.pc = "plant", !.u = r.u,
                              !.calls = Append(@, [f |-> "controller.step", e |-> e,
                                                   dt |-> sim.dt, ret |-> r.u])]
        /\ UNCHANGED <<v, params, webpid, last, ncalls, web>>

\* lines 79-83 of iteration i: v_next = vehicle.step(u, dt); v_arr[i] = v_next;
\* u_arr[i] = u
simulate_plant ==
    /\ sim.pc = "plant"
    /\ \E v_next \in {CarPlantStep(params, v, sim.u, sim.dt)},
          vt_next \in {CarPlantStep(params, twin.v, twin.u, sim.dt)} :
        /\ v' = v_next
        /\ twin' = [twin EXCEPT !.v = vt_next, !.v_arr[sim.i + 1] = vt_next,
                                !.u_arr[sim.i + 1] = twin.u]
        /\ sim' = [sim EXCEPT !.pc = "loop", !.i = @ + 1,
                              !.v_arr[sim.i + 1] = v_next,
                              !.u_arr[sim.i + 1] = sim.u,
                              !.calls = Append(@, [f |-> "vehicle.step", u |-> sim.u,
                                                   dt |-> sim.dt, v |-> v,
                                                   ret |-> v_next])]
        /\ UNCHANGED <<params, pid, webpid, fuzzy, last, ncalls, web>>

\* line 85: return t_arr, v_arr, u_arr, v_set_arr
simulate_return ==
    /\ sim.pc = "loop"
    /\ sim.i = sim.steps
    /\ sim' = [sim EXCEPT !.pc = "done"]
    /\ UNCHANGED <<v, params, pid, webpid, fuzzy, twin, last, ncalls, web>>

InitSim ==
    /\ v = CarPlantInit
    /\ params \in SimPlantParams
    /\ pid \in {PIDController(p) : p \in PIDParamsIn}
    /\ webpid = WebPIDDefault
    /\ fuzzy = FuzzyCruiseController(FuzzyParamsCoarse)
    /\ twin = FreshTwin(pid, fuzzy)
    /\ sim = SimIdle
    /\ last = [op |-> "init"]
    /\ ncalls = 0
    /\ web = WebStart

\* an earlier call on the objects, made while simulate is not running
SimEarlier == ~SimRunning /\ ncalls < MaxSimCalls

NextSim ==
    \/ \E u \in SimEarlierU, dt \in SimEarlierDts : SimEarlier /\ CarPlant_step(u, dt)
    \/ \E v0 \in SimEarlierV0 : SimEarlier /\ CarPlant_reset(v0)
    \/ \E e \in SimEarlierErrors, dt \in SimEarlierDts : SimEarlier /\ PID_step(e, dt)
    \/ \E e \in SimEarlierErrors, dt \in SimEarlierDts : SimEarlier /\ Fuzzy_step(e, dt)
    \/ \E kind \in SimKinds, v_set \in SimVSets, t_sim \in SimTSims, dt \in SimDts :
          ncalls < MaxSimCalls /\ simulate_begin(kind, v_set, t_sim, dt)
    \/ simulate_controller
    \/ simulate_plant
    \/ simulate_return

SpecSim == InitSim /\ [][NextSim]_vars

-----------------------------------------------------------------------------
(* Claims about simulate *)

\* simulate has got past its set-up and no other call was made since
C7_InProgressOrDone == sim.pc \in {"loop", "plant", "done"} /\ last.op = "simulate"

\* C6: simulate is deterministic in (v_set, t_sim, dt) and the parameters of
\* the plant and the controller: called on objects that were used before
\* (stepped, reset to other speeds, run through earlier simulations), it returns
\* the control and speed sequences that the same call returns on a freshly
\* constructed plant and controller with the same parameters.
C6_SimulateDeterministic ==
    sim.pc = "done" =>
        /\ sim.v_arr = twin.v_arr
        /\ sim.u_arr = twin.u_arr
        /\ sim.t_arr = t_arr_of(sim.t_sim, Len(twin.v_arr))
        /\ sim.v_set_arr = full(Len(twin.u_arr), sim.v_set)

\* a finished run of three iterations with a fuzzy controller on objects that
\* carried memory when simulate was called, with controls that are not all zero
C6_Witness ==
    /\ sim.pc = "done"
    /\ sim.dirty
    /\ sim.kind = "fuzzy"
    /\ sim.steps = 3
    /\ sim.u_arr[1] # Zero
    /\ sim.v_arr[3] # Zero

\* C7: in iteration i of the loop, controller.step is called exactly once, with
\* the error v_set minus the plant speed before the plant step of that
\* iteration and with dt; the plant is then stepped once with the value
\* returned; u_arr[i] holds that value and v_arr[i] the speed that plant step
\* returned, which is the plant speed after the iteration.
\* The only calls made on the objects are the two resets and these steps.
C7_IterationOrder ==
    C7_InProgressOrDone =>
        /\ Len(sim.calls) = 2 + 2 * sim.i + (IF sim.pc = "plant" THEN 1 ELSE 0)
        /\ sim.calls[1] = [f |-> "vehicle.reset", v0 |-> Zero]
        /\ sim.calls[2] = [f |-> "controller.reset"]
        /\ sim.pc = "plant" => sim.calls[Len(sim.calls)].f = "controller.step"
        /\ \A k \in 1..sim.i :
             /\ sim.calls[2 * k + 1].f = "controller.step"
             /\ sim.calls[2 * k + 2].f = "vehicle.step"
             /\ sim.calls[2 * k + 1].e = RSub(sim.v_set, sim.calls[2 * k + 2].v)
             /\ sim.calls[2 * k + 1].dt = sim.dt
             /\ sim.calls[2 * k + 2].u = sim.calls[2 * k + 1].ret
             /\ sim.calls[2 * k + 2].dt = sim.dt
             /\ sim.u_arr[k] = sim.calls[2 * k + 1].ret
             /\ sim.v_arr[k] = sim.calls[2 * k + 2].ret
             /\ sim.v_arr[k] = IF k < sim.i THEN sim.calls[2 * k + 4].v ELSE get_speed(v)

\* a finished PID run of three iterations in which the speed and the control
\* changed from one iteration to the next
C7_Witness ==
    /\ C7_InProgressOrDone
    /\ sim.pc = "done"
    /\ sim.kind = "pid"
    /\ sim.i = 3
    /\ sim.v_arr[1] # sim.v_arr[2]
    /\ sim.u_arr[2] # sim.u_arr[3]
    /\ sim.calls[3].e # sim.calls[5].e

\* k = floor(t_sim / dt) for dt > 0: k * dt <= t_sim < (k + 1) * dt
C8_IsFloor(k, t_sim, dt) ==
    /\ RLe(RMul(Int2R(k), dt), t_sim)
    /\ RLt(t_sim, RMul(Int2R(k + 1), dt))

\* the plant steps simulate has made
C8_Iterations == Cardinality({j \in 1..Len(sim.calls) : sim.calls[j].f = "vehicle.step"})

\* C8: for t_sim >= 0 and dt > 0, simulate returns, after exactly
\* floor(t_sim / dt) iterations of the loop, and the four sequences it returns
\* all have that length.
C8_StepCount ==
    (sim.pc \in {"done", "raised"} /\ RLe(Zero, sim.t_sim) /\ RLt(Zero, sim.dt)) =>
        /\ sim.pc = "done"
        /\ C8_IsFloor(sim.i, sim.t_sim, sim.dt)
        /\ C8_Iterations = sim.i
        /\ Len(sim.t_arr) = sim.i
        /\ Len(sim.v_arr) = sim.i
        /\ Len(sim.u_arr) = sim.i
        /\ Len(sim.v_set_arr) = sim.i

\* a finished run with t_sim = 1.5 and dt = 1: the quotient is not an integer
\* and one iteration was made
C8_Witness ==
    /\ sim.pc = "done"
    /\ sim.t_sim = <<3, 2>>
    /\ sim.dt = One
    /\ sim.i = 1
    /\ Len(sim.v_arr) = 1

\* C9: every dt that simulate passes to controller.step and to vehicle.step is
\* > 0, whatever (t_sim, dt) it was called with.
C9_StepDtPositive ==
    sim.pc # "idle" =>
        \A j \in 1..Len(sim.calls) :
            sim.calls[j].f \in {"controller.step", "vehicle.step"} =>
                RLt(Zero, sim.calls[j].dt)

-----------------------------------------------------------------------------
(* The fuzzy controller on its own: FuzzyCruiseController.reset and step *)

\* calls made to the fuzzy controller in one behaviour
MaxFuzzyCalls == 2

\* FuzzyParams(u_range=(1.0, 2.0), resolution=5): an output range without 0
FuzzyParamsShifted ==
    FuzzyParams(<<Int2R(-10), Int2R(10)>>, <<Int2R(-3), Int2R(3)>>,
                <<One, Int2R(2)>>, 5)

\* parameters the fuzzy controllers are constructed with
FuzzyOnlyParamsIn == {FuzzyParamsCoarse, FuzzyParamsOther, FuzzyParamsShifted}

\* errors and time steps of the calls
FuzzyErrors == {Int2R(-20), Int2R(-7), Int2R(-2), Zero, Int2R(2), Int2R(7), Int2R(20)}
FuzzyDts == {Int2R(-1), Zero, <<1, 2>>, Int2R(2)}

InitFuzzy ==
    /\ v = CarPlantInit
    /\ params = FerrariCar
    /\ pid = PIDController(PIDParamsDefault)
    /\ webpid = WebPIDDefault
    /\ fuzzy \in {FuzzyCruiseController(p) : p \in FuzzyOnlyParamsIn}
    /\ twin = FreshTwin(pid, fuzzy)
    /\ sim = SimIdle
    /\ last = [op |-> "init"]
    /\ ncalls = 0
    /\ web = WebStart

NextFuzzy ==
    \/ ncalls < MaxFuzzyCalls /\ Fuzzy_reset
    \/ \E e \in FuzzyErrors, dt \in FuzzyDts : ncalls < MaxFuzzyCalls /\ Fuzzy_step(e, dt)

SpecFuzzy == InitFuzzy /\ [][NextFuzzy]_vars

-----------------------------------------------------------------------------
(* Claims about the fuzzy controller *)

\* u lies in the output range the controller c was configured with
C11_InRange(c, u) == RLe(c.params.u_range[1], u) /\ RLe(u, c.params.u_range[2])

C12_AllZero(terms) ==
    /\ terms.NB = Zero /\ terms.NS = Zero /\ terms.Z = Zero
    /\ terms.PS = Zero /\ terms.PB = Zero

\* the derivative that a step(e, dt) of the controller c works with
C12_Derivative(c, e, dt) ==
    IF RLt(Zero, dt) THEN RDiv(RSub(e, c.e_prev), dt) ELSE Zero

\* C12: when all the memberships of e, or all the memberships of de, are 0 (no
\* rule fires), FuzzyCruiseController.step returns exactly 0, and e_prev is e
\* after the call.
C12_ZeroFallback ==
    (/\ last.op = "Fuzzy.step"
     /\ \/ C12_AllZero(e_terms_of(last.c.params, last.e))
        \/ C12_AllZero(de_terms_of(last.c.params,
                                   C12_Derivative(last.c, last.e, last.dt))))
    => /\ last.ret = Zero
       /\ fuzzy.e_prev = last.e

\* a step whose error has non-zero memberships but whose derivative, taken
\* against a remembered error, has none: it returned 0 and replaced e_prev
C12_Witness ==
    /\ last.op = "Fuzzy.step"
    /\ ~C12_AllZero(e_terms_of(last.c.params, last.e))
    /\ C12_AllZero(de_terms_of(last.c.params, C12_Derivative(last.c, last.e, last.dt)))
    /\ last.c.e_prev # Zero
    /\ last.c.e_prev # last.e
    /\ last.ret = Zero
    /\ fuzzy.e_prev = last.e

-----------------------------------------------------------------------------
(* triangular_mf on its own: the function applied to arguments of a grid *)

\* the grid runs from -MFGridMax/2 to MFGridMax/2 in steps of 1/2
MFGridMax == 4

\* arguments x, a, b, c of the calls
MFGrid == {Rat(n, 2) : n \in -MFGridMax..MFGridMax}

\* y = triangular_mf(x, a, b, c) for the arguments drawn
triangular_mf_call ==
    /\ last.op = "triangular_mf args"
    /\ last' = [op |-> "triangular_mf", x |-> last.x, a |-> last.a, b |-> last.b,
                c |-> last.c, ret |-> triangular_mf(last.x, last.a, last.b, last.c)]
    /\ UNCHANGED <<v, params, pid, webpid, fuzzy, twin, sim, ncalls, web>>

InitMF ==
    /\ v = CarPlantInit
    /\ params = FerrariCar
    /\ pid = PIDController(PIDParamsDefault)
    /\ webpid = WebPIDDefault
    /\ fuzzy = FuzzyCruiseController(FuzzyParamsDefault)
    /\ twin = FreshTwin(pid, fuzzy)
    /\ sim = SimIdle
    /\ last \in [op : {"triangular_mf args"}, x : MFGrid, a : MFGrid, b : MFGrid,
                  c : MFGrid]
    /\ ncalls = 0
    /\ web = WebStart

NextMF == triangular_mf_call

SpecMF == InitMF /\ [][NextMF]_vars

-----------------------------------------------------------------------------
(* Claims about triangular_mf *)

\* the grid points between lo and hi
C13_Between(lo, hi) == {y \in MFGrid : RLe(lo, y) /\ RLe(y, hi)}

\* C13: for a < b < c, triangular_mf(x, a, b, c) is 1 at x = b, 0 for x <= a
\* and for x >= c, in [0, 1] for every x, non-decreasing on [a, b] and
\* non-increasing on [b, c]; for a = b = c it is 1 at x = a and 0 elsewhere.
C13_TriangleShape ==
    last.op = "triangular_mf" =>
        /\ (RLt(last.a, last.b) /\ RLt(last.b, last.c)) =>
              /\ last.x = last.b => last.ret = One
              /\ RLe(last.x, last.a) => last.ret = Zero
              /\ RLe(last.c, last.x) => last.ret = Zero
              /\ RLe(Zero, last.ret) /\ RLe(last.ret, One)
              /\ \A y \in C13_Between(last.a, last.b) :
                    (RLe(last.a, last.x) /\ RLe(last.x, y)) =>
                        RLe(last.ret, triangular_mf(y, last.a, last.b, last.c))
              /\ \A y \in C13_Between(last.b, last.c) :
                    (RLe(last.b, last.x) /\ RLe(last.x, y)) =>
                        RLe(triangular_mf(y, last.a, last.b, last.c), last.ret)
        /\ (last.a = last.b /\ last.b = last.c) =>
              last.ret = (IF last.x = last.a THEN One ELSE Zero)

\* a point strictly between a and b of a triangle with a < b < c and unequal
\* sides, with a membership strictly between 0 and 1
C13_Witness ==
    /\ last.op = "triangular_mf"
    /\ RLt(last.a, last.x) /\ RLt(last.x, last.b) /\ RLt(last.b, last.c)
    /\ RSub(last.b, last.a) # RSub(last.c, last.b)
    /\ RLt(Zero, last.ret) /\ RLt(last.ret, One)

-----------------------------------------------------------------------------
(* Degenerate time steps: both controllers called with dt <= 0 *)

\* calls made to the two controllers in one behaviour
MaxDtCalls == 3

\* errors and time steps of the calls
DtPIDErrors == {<<-1, 2>>, <<1, 4>>, <<1, 2>>}
DtFuzzyErrors == {Int2R(-7), Int2R(2)}
DtDts == {Int2R(-1), Zero, One}

InitDt ==
    /\ v = CarPlantInit
    /\ params = FerrariCar
    /\ pid \in {PIDController(p) : p \in PIDParamsIn}
    /\ webpid = WebPIDDefault
    /\ fuzzy \in {FuzzyCruiseController(p) : p \in FuzzyParamsIn}
    /\ twin = FreshTwin(pid, fuzzy)
    /\ sim = SimIdle
    /\ last = [op |-> "init"]
    /\ ncalls = 0
    /\ web = WebStart

NextDt ==
    \/ \E e \in DtPIDErrors, dt \in DtDts : ncalls < MaxDtCalls /\ PID_step(e, dt)
    \/ \E e \in DtFuzzyErrors, dt \in DtDts : ncalls < MaxDtCalls /\ Fuzzy_step(e, dt)

SpecDt == InitDt /\ [][NextDt]_vars

\* C14: a step(e, dt) with dt <= 0 of either controller works with a
\* derivative of 0 (the PID returns clip(Kp*e + Ki*integral); the fuzzy
\* controller returns what a call with an unchanged error returns) and leaves
\* e_prev = e; every step with dt > 0 takes its derivative against the e_prev
\* it finds, so the step after a degenerate one takes it against that e.
C14_DegenerateDt ==
    /\ last.op = "PID.step" =>
          /\ pid.e_prev = last.e
          /\ RLe(last.dt, Zero) =>
                last.ret = Clip(RAdd(RMul(last.c.Kp, last.e),
                                     RMul(last.c.Ki, pid.integral)),
                                last.c.u_min, last.c.u_max)
          /\ RLt(Zero, last.dt) =>
                last.ret = Clip(RAdd(RAdd(RMul(last.c.Kp, last.e),
                                          RMul(last.c.Ki, pid.integral)),
                                     RMul(last.c.Kd,
                                          RDiv(RSub(last.e, last.c.e_prev), last.dt))),
                                last.c.u_min, last.c.u_max)
    /\ last.op = "Fuzzy.step" =>
          /\ fuzzy.e_prev = last.e
          /\ RLe(last.dt, Zero) =>
                last.ret = FuzzyCruiseController_step(
                               [last.c EXCEPT !.e_prev = last.e], last.e, One).u

\* a fuzzy step with dt <= 0 on a controller that remembered another error,
\* with an output other than 0, next to a PID controller with a derivative
\* gain that was stepped with dt = 0 (its integral is 0, its e_prev is not)
C14_Witness ==
    /\ last.op = "Fuzzy.step"
    /\ RLe(last.dt, Zero)
    /\ last.c.e_prev # Zero
    /\ last.c.e_prev # last.e
    /\ last.ret # Zero
    /\ fuzzy.e_prev = last.e
    /\ pid.Kd # Zero
    /\ pid.integral = Zero
    /\ pid.e_prev # Zero

-----------------------------------------------------------------------------
(* Claims about the PID controller with the proportional gain alone *)

\* x clamped to [lo, hi], for lo <= hi
C15_Clamped(x, lo, hi) == IF RLt(x, lo) THEN lo ELSE IF RLt(hi, x) THEN hi ELSE x

\* C15: with Ki = Kd = 0 (and u_min <= u_max), every PIDController.step(e, dt)
\* returns Kp*e clamped to [u_min, u_max], whatever calls came before; so it
\* returns Kp*e itself when u_min <= Kp*e <= u_max.
C15_ProportionalOnly ==
    (/\ last.op = "PID.step"
     /\ last.c.Ki = Zero
     /\ last.c.Kd = Zero
     /\ RLe(last.c.u_min, last.c.u_max))
    => last.ret = C15_Clamped(RMul(last.c.Kp, last.e), last.c.u_min, last.c.u_max)

\* a step with Ki = Kd = 0 on a controller that had already accumulated an
\* integral of the same positive error: it returned Kp*e, strictly inside the
\* limits
C15_Witness ==
    /\ last.op = "PID.step"
    /\ last.c.Ki = Zero
    /\ last.c.Kd = Zero
    /\ RLt(Zero, last.e)
    /\ last.c.e_prev = last.e
    /\ last.c.integral # Zero
    /\ last.ret = RMul(last.c.Kp, last.e)
    /\ RLt(last.c.u_min, last.ret)
    /\ RLt(last.ret, last.c.u_max)

-----------------------------------------------------------------------------
(* Claims about the plant coasting with control 0 *)

\* C16: a plant step with control 0 and dt > 0 never raises the speed: after
\* reset(v0), v0 # 0, the speeds of repeated step(0, dt) calls are
\* non-increasing.
C16_CoastingNonIncreasing ==
    (last.op = "CarPlant.step" /\ last.u = Zero /\ RLt(Zero, last.dt))
    => RLe(last.ret, last.v)

-----------------------------------------------------------------------------
(* Claims about the output terms of the fuzzy controller *)

\* the output terms in their order
C20_Labels == <<"Z", "S", "M", "B">>

\* the k-th of four evenly spaced points of the output range of p, k in 0..3:
\* u_min + k * (u_max - u_min) / 3
C20_EvenPoint(p, k) ==
    RAdd(p.u_range[1],
         RMul(Int2R(k), RDiv(RSub(p.u_range[2], p.u_range[1]), Int2R(3))))

\* C20: the peaks of the output terms Z, S, M, B are evenly spaced across the
\* output range, the first at u_min and the last at u_max (each term has
\* membership 1 at its evenly spaced point), and every point of the output
\* universe has a non-zero membership in at least one output term.
C20_OutputTermsEvenlySpaced ==
    /\ \A k \in 0..3 :
          u_mf(fuzzy.params, C20_Labels[k + 1], C20_EvenPoint(fuzzy.params, k)) = One
    /\ \A i \in 0..(fuzzy.params.resolution - 1) :
          \E k \in 1..4 :
             RLt(Zero, u_mf(fuzzy.params, C20_Labels[k], u_universe(fuzzy.params, i)))

\* the spacing of the output universe of p, its defuzzification resolution
C19_Tolerance(p) ==
    RDiv(RSub(p.u_range[2], p.u_range[1]), Int2R(p.resolution - 1))

\* |x - y| <= tol
C19_Close(x, y, tol) == RLe(RSub(x, y), tol) /\ RLe(RSub(y, x), tol)

\* the output of the mirrored call: error -e from the memory -e_prev, which
\* gives the derivative -de
C19_Mirrored(c, e, dt) ==
    FuzzyCruiseController_step([c EXCEPT !.e_prev = RNeg(@)], RNeg(e), dt).u

\* C19: with the output range [0, 1], the output of a step from any memory
\* state, for (e, de), and the output for (-e, -de) add up to 1, up to the
\* defuzzification resolution.
C19_InferenceSymmetric ==
    (last.op = "Fuzzy.step" /\ last.c.params.u_range = <<Zero, One>>)
    => C19_Close(last.ret, RSub(One, C19_Mirrored(last.c, last.e, last.dt)),
                 C19_Tolerance(last.c.params))

-----------------------------------------------------------------------------
(* The end-to-end runs: simulate() on the Ferrari plant with the default PID
   and the default fuzzy controller, setpoint 30 km/h, t_sim = 20, dt = 0.05.
   A run of 400 iterations cannot be followed in exact rationals (the
   denominators grow with every plant step), so in these runs every float
   that is stored (the speed, the integral, the control) is rounded to
   FloatScale steps per unit, as a float is rounded to its 53 bits. *)

\* stored values keep 1/FloatScale as their precision
FloatScale == 1000

\* the multiple of 1/FloatScale nearest to x (halves upwards)
Float(x) ==
    Rat((2 * RMul(x, Int2R(FloatScale))[1] + RMul(x, Int2R(FloatScale))[2])
            \div (2 * RMul(x, Int2R(FloatScale))[2]),
        FloatScale)

\* the controller c with its stored floats rounded
FloatController(kind, c) ==
    IF kind = "pid" THEN [c EXCEPT !.integral = Float(@)] ELSE c

\* the arguments of the runs: 30 km/h as it is, and converted to m/s as
\* ui.py and main.py do (v_set_kph / 3.6)
ScenarioVSets == {Int2R(30), <<25, 3>>}
ScenarioTSim == Int2R(20)
ScenarioDt == <<1, 20>>

\* lines 60-69 of simulate for the arguments of the scenario
scenario_begin(kind, v_set) ==
    /\ sim.pc = "idle"
    /\ v' = CarPlantReset(Zero)
    /\ pid' = IF kind = "pid" THEN SimReset(kind, pid) ELSE pid
    /\ fuzzy' = IF kind = "fuzzy" THEN SimReset(kind, fuzzy) ELSE fuzzy
    /\ \E steps \in {py_int(RDiv(ScenarioTSim, ScenarioDt))} :
          sim' = [pc |-> "run", kind |-> kind, v_set |-> v_set,
                  t_sim |-> ScenarioTSim, dt |-> ScenarioDt, steps |-> steps,
                  i |-> 0, u |-> Zero, t_arr |-> t_arr_of(ScenarioTSim, steps),
                  v_arr |-> zeros(steps), u_arr |-> zeros(steps),
                  v_set_arr |-> full(steps, v_set)]
    /\ last' = [op |-> "simulate"]
    /\ ncalls' = ncalls + 1
    /\ UNCHANGED <<params, webpid, twin, web>>

\* lines 72-76 of iteration i, the stored floats rounded
scenario_controller ==
    /\ sim.pc = "run"
    /\ sim.i < sim.steps
    /\ \E r \in {SimStep(sim.kind, SimController(sim.kind),
                         SimError(sim.v_set, get_speed(v)), sim.dt)} :
          /\ pid' = IF sim.kind = "pid" THEN FloatController(sim.kind, r.c) ELSE pid
          /\ fuzzy' = IF sim.kind = "fuzzy" THEN FloatController(sim.kind, r.c) ELSE fuzzy
          /\ sim' = [sim EXCEPT !.pc = "run plant", !.u = Float(r.u)]
    /\ UNCHANGED <<v, params, webpid, twin, last, ncalls, web>>

\* lines 79-83 of iteration i, the stored floats rounded
scenario_plant ==
    /\ sim.pc = "run plant"
    /\ \E v_next \in {Float(CarPlantStep(params, v, sim.u, sim.dt))} :
          /\ v' = v_next
          /\ sim' = [sim EXCEPT !.pc = "run", !.i = @ + 1,
                                !.v_arr[sim.i + 1] = v_next,
                                !.u_arr[sim.i + 1] = sim.u]
    /\ UNCHANGED <<params, pid, webpid, fuzzy, twin, last, ncalls, web>>

\* line 85
scenario_return ==
    /\ sim.pc = "run"
    /\ sim.i = sim.steps
    /\ sim' = [sim EXCEPT !.pc = "returned"]
    /\ UNCHANGED <<v, params, pid, webpid, fuzzy, twin, last, ncalls, web>>

InitScenario == InitObjects /\ params = FerrariCar

NextScenario ==
    \/ \E kind \in SimKinds, v_set \in ScenarioVSets : scenario_begin(kind, v_set)
    \/ scenario_controller
    \/ scenario_plant
    \/ scenario_return

SpecScenario == InitScenario /\ [][NextScenario]_vars

-----------------------------------------------------------------------------
(* Claims about the end-to-end runs *)

\* |x - target| <= fraction * target
C17_Within(x, target, fraction) ==
    /\ RLe(RSub(x, target), RMul(fraction, target))
    /\ RLe(RSub(target, x), RMul(fraction, target))

\* C17: the speed series returned by the PID run is strictly increasing and
\* its last value is within 5% of the setpoint.
C17_PIDRunReachesSetpoint ==
    (sim.pc = "returned" /\ sim.kind = "pid") =>
        /\ \A i \in 1..(sim.steps - 1) : RLt(sim.v_arr[i], sim.v_arr[i + 1])
        /\ C17_Within(sim.v_arr[sim.steps], sim.v_set, <<1, 20>>)

\* C18: in the speed series returned by the fuzzy run, every value at a time
\* after t = 10 s is within 10% of the setpoint.
C18_FuzzyRunStaysNearSetpoint ==
    (sim.pc = "returned" /\ sim.kind = "fuzzy") =>
        \A i \in 1..sim.steps :
            RLt(Int2R(10), sim.t_arr[i]) =>
                C17_Within(sim.v_arr[i], sim.v_set, <<1, 10>>)

-----------------------------------------------------------------------------
(* Claims about the rule table of the fuzzy controller *)

\* the input terms from the most negative to the most positive
C21_InputOrder == <<"NB", "NS", "Z", "PS", "PB">>

\* the place of an output term in the order Z < S < M < B
C21_Rank(label) ==
    CASE label = "Z" -> 0 [] label = "S" -> 1 [] label = "M" -> 2 [] label = "B" -> 3

\* the consequent of the rule for the pair (e_label, de_label)
C21_Consequent(e_label, de_label) ==
    rules[CHOOSE i \in 1..Len(rules) :
              rules[i][1] = e_label /\ rules[i][2] = de_label][3]

\* the rules that fire with a strength > 0 in step(e, dt) on the controller c
C21_Fired(c, e, dt) ==
    LET de == IF RLt(Zero, dt) THEN RDiv(RSub(e, c.e_prev), dt) ELSE Zero
    IN  {i \in 1..Len(rules) :
            RLt(Zero, RMin(e_terms_of(c.params, e)[rules[i][1]],
                           de_terms_of(c.params, de)[rules[i][2]]))}

\* C21: every rule that a step fires and whose error term is NB, NS or Z has
\* the consequent Z or S, and for each derivative term the consequent of the
\* table never decreases as the error term goes from NB to PB.
C21_RuleTableFavoursPositiveError ==
    last.op = "Fuzzy.step" =>
        /\ \A i \in C21_Fired(last.c, last.e, last.dt) :
              rules[i][1] \in {"NB", "NS", "Z"} => rules[i][3] \in {"Z", "S"}
        /\ \A d \in 1..5, k \in 1..4 :
              C21_Rank(C21_Consequent(C21_InputOrder[k], C21_InputOrder[d]))
                  <= C21_Rank(C21_Consequent(C21_InputOrder[k + 1], C21_InputOrder[d]))

-----------------------------------------------------------------------------
(* Claims about the setters of the PID controller *)

\* a field after a setter: the argument if one was given, else as before
C22_Set(after, before, arg) == after = (IF arg # None THEN arg ELSE before)

\* the memory of the controller c
C22_Memory(c) == <<c.integral, c.e_prev>>

\* C22: set_gains and set_limits change exactly the fields whose argument is
\* not None, neither changes the memory (integral, e_prev), and reset changes
\* none of the gains and limits.
C22_SettersFrame ==
    /\ last.op = "PID.set_gains" =>
          /\ C22_Set(pid.Kp, last.c.Kp, last.Kp)
          /\ C22_Set(pid.Ki, last.c.Ki, last.Ki)
          /\ C22_Set(pid.Kd, last.c.Kd, last.Kd)
          /\ pid.u_min = last.c.u_min /\ pid.u_max = last.c.u_max
          /\ C22_Memory(pid) = C22_Memory(last.c)
    /\ last.op = "PID.set_limits" =>
          /\ C22_Set(pid.u_min, last.c.u_min, last.u_min)
          /\ C22_Set(pid.u_max, last.c.u_max, last.u_max)
          /\ pid.Kp = last.c.Kp /\ pid.Ki = last.c.Ki /\ pid.Kd = last.c.Kd
          /\ C22_Memory(pid) = C22_Memory(last.c)
    /\ last.op = "PID.reset" => PIDParamsOf(pid) = PIDParamsOf(last.c)

\* set_gains with a new Kp and no Ki on a controller that remembers an
\* integral and an error
C22_Witness ==
    /\ last.op = "PID.set_gains"
    /\ last.Kp # None /\ last.Ki = None
    /\ pid.Kp # last.c.Kp /\ pid.Ki # Zero
    /\ pid.integral # Zero /\ pid.e_prev # Zero

\* C26: in the series returned by a fuzzy run with a positive setpoint, some
\* iteration has a control output > 0 and the speed is > 0 from that iteration
\* on.
C26_PositiveErrorAccelerates ==
    (sim.pc = "returned" /\ sim.kind = "fuzzy" /\ RLt(Zero, sim.v_set)) =>
        \E i \in 1..sim.steps :
            /\ RLt(Zero, sim.u_arr[i])
            /\ \A j \in i..sim.steps : RLt(Zero, sim.v_arr[j])

-----------------------------------------------------------------------------
(* The default fuzzy controller on inputs inside its ranges: one step with
   the error e and the error derivative de taken from a grid over e_range and
   de_range; the controller remembers the error e - de * dt of an earlier
   step, so that the step computes the derivative de *)

\* the grids divide each range into RangeSteps parts
RangeSteps == 8

\* the point k of the grid over the range <<lo, hi>>
RangePoint(range, k) ==
    RAdd(range[1], RDiv(RMul(Int2R(k), RSub(range[2], range[1])), Int2R(RangeSteps)))

\* time steps of the calls
RangeDts == {<<1, 2>>, One}

\* the controller before the call and the arguments of the call
RangeCalls ==
    {[op |-> "step args", dt |-> dt,
      e |-> RangePoint(FuzzyParamsDefault.e_range, i),
      de |-> RangePoint(FuzzyParamsDefault.de_range, j)] :
        i \in 0..RangeSteps, j \in 0..RangeSteps, dt \in RangeDts}

Range_step ==
    /\ last.op = "step args"
    /\ Fuzzy_step(last.e, last.dt)

InitRange ==
    /\ v = CarPlantInit
    /\ params = FerrariCar
    /\ pid = PIDController(PIDParamsDefault)
    /\ webpid = WebPIDDefault
    /\ last \in RangeCalls
    /\ fuzzy = [FuzzyCruiseController(FuzzyParamsDefault)
                   EXCEPT !.e_prev = RSub(last.e, RMul(last.de, last.dt))]
    /\ twin = FreshTwin(pid, fuzzy)
    /\ sim = SimIdle
    /\ ncalls = 0
    /\ web = WebStart

NextRange == Range_step

SpecRange == InitRange /\ [][NextRange]_vars

-----------------------------------------------------------------------------
(* Claims about the inputs inside the configured ranges *)

\* x lies in the range <<lo, hi>>
C27_InRange(x, range) == RLe(range[1], x) /\ RLe(x, range[2])

\* the error derivative that step(e, dt) computes on the controller c
C27_Derivative(c, e, dt) ==
    IF RLt(Zero, dt) THEN RDiv(RSub(e, c.e_prev), dt) ELSE Zero

\* den of the defuzzification loop in step(e, dt) on the controller c
C27_Den(c, e, dt) ==
    CentroidSums(c.params,
                 mu_out_of(e_terms_of(c.params, e),
                           de_terms_of(c.params, C27_Derivative(c, e, dt))),
                 0, c.params.resolution - 1)[2]

\* C27: for e inside e_range and de inside de_range at least one rule fires
\* with a strength > 0 and the denominator of the centroid is > 0.
C27_SomeRuleFires ==
    (/\ last.op = "Fuzzy.step"
     /\ C27_InRange(last.e, last.c.params.e_range)
     /\ C27_InRange(C27_Derivative(last.c, last.e, last.dt), last.c.params.de_range))
    => /\ C21_Fired(last.c, last.e, last.dt) # {}
       /\ RLt(Zero, C27_Den(last.c, last.e, last.dt))

\* a step at the corner e = e_max, de = de_min of the ranges
C27_Witness ==
    /\ last.op = "Fuzzy.step"
    /\ last.e = last.c.params.e_range[2]
    /\ C27_Derivative(last.c, last.e, last.dt) = last.c.params.de_range[1]
    /\ last.c.params = FuzzyParamsDefault
    /\ RLt(Zero, last.ret)

-----------------------------------------------------------------------------
(* Claims about the time axis that simulate returns *)

\* t_sim is a positive multiple of dt
C29_Multiple(t_sim, dt) ==
    /\ RLt(Zero, dt) /\ RLt(Zero, t_sim)
    /\ RMul(Int2R(py_int(RDiv(t_sim, dt))), dt) = t_sim

\* C29: when t_sim is a positive multiple of dt, the time axis returned by
\* simulate starts at 0 and its consecutive entries differ by exactly dt.
C29_TimeAxisOnStepGrid ==
    (sim.pc = "done" /\ C29_Multiple(sim.t_sim, sim.dt)) =>
        /\ sim.t_arr[1] = Zero
        /\ \A i \in 1..(Len(sim.t_arr) - 1) :
              RSub(sim.t_arr[i + 1], sim.t_arr[i]) = sim.dt

-----------------------------------------------------------------------------
(* control_system.py: the fuzzy lookup tables.

   build_interpolator runs a Mamdani inference (scikit-fuzzy: the AND of a
   rule is min, the rules of one consequent and the consequents are joined by
   max, the output is the centroid of the joined shape) at every point of a
   30 x 30 grid and hands the matrix to scipy's RegularGridInterpolator.  The
   terms are seven triangles (automf) or trapezoids (make_traps) with their
   centres evenly spaced over the universe.  The floats of this computation
   are kept to WebDigits decimals: every product and quotient is rounded. *)

max_error == 25
max_delta_e == 5
max_delta_u == 600

\* the decimals kept by the products and quotients of the inference
WebDigits == 4

\* the decimals kept by the floats that run_simulation stores
StoreDigits == 3

names == <<"DU", "SU", "MU", "Z", "MD", "SD", "DD">>

rule_table ==
    << <<"DU", "DU", "DU", "DU", "SU", "MU", "Z">>,
       <<"DU", "DU", "DU", "SU", "MU", "Z", "MD">>,
       <<"DU", "DU", "SU", "MU", "Z", "MD", "SD">>,
       <<"DU", "SU", "MU", "Z", "MD", "SD", "DD">>,
       <<"SU", "MU", "Z", "MD", "SD", "DD", "DD">>,
       <<"MU", "Z", "MD", "SD", "DD", "DD", "DD">>,
       <<"Z", "MD", "SD", "DD", "DD", "DD", "DD">> >>

\* names.index(label)
NameIndex(label) == CHOOSE k \in 1..Len(names) : names[k] = label

Pow10[k \in Nat] == IF k = 0 THEN 1 ELSE 10 * Pow10[k - 1]

\* one more decimal of a quotient by d: from <<digits so far, remainder>>
DecimalStep[p \in Nat \X Nat, d \in Nat] ==
    <<10 * p[1] + ((10 * p[2]) \div d), (10 * p[2]) % d>>

\* the first k decimals of r / d for 0 <= r < d and the remainder left,
\* <<floor(r * 10^k / d), (r * 10^k) % d>>, taken digit by digit
Decimals[k \in Nat, r \in Nat, d \in Nat] ==
    IF k = 0 THEN <<0, r>> ELSE DecimalStep[Decimals[k - 1, r, d], d]

\* n/d rounded to k decimals (halves upwards), given dec = Decimals[k, n % d, d]
RoundFrom(n, d, k, dec) ==
    Rat((n \div d) * Pow10[k] + dec[1] + (IF 2 * dec[2] >= d THEN 1 ELSE 0), Pow10[k])

\* the float x kept to k decimals
Round[x \in Int \X Int, k \in Nat] ==
    RoundFrom(x[1], x[2], k, Decimals[k, x[1] % x[2], x[2]])

\* the products and quotients of the inference
FMul(x, y) == Round[RMul(x, y), WebDigits]
FDiv(x, y) == Round[RDiv(x, y), WebDigits]

RAbs(x) == <<Abs(x[1]), x[2]>>

\* the largest and the smallest of a finite non-empty set of floats
RMaxOf(S) == CHOOSE x \in S : \A y \in S : RLe(y, x)
RMinOf(S) == CHOOSE x \in S : \A y \in S : RLe(x, y)

\* the half-width of the flat top of a term, in steps between the centres:
\* 0 for the triangles of automf, 0.3 for the trapezoids of make_traps
TopWidth(mf_type) == IF mf_type = "trap" THEN <<3, 10>> ELSE Zero

\* the membership of a point at the distance d >= 0 (in steps between the
\* centres) from the centre of a term with the top half-width w
TermAt[w \in Int \X Int, d \in Int \X Int] ==
    IF RLe(One, d) THEN Zero
    ELSE IF RLe(d, w) THEN One
    ELSE FDiv(RSub(One, d), RSub(One, w))

\* the membership of x in the term k (1..7) of an input over [-max, max]: the
\* centres are max * (k - 4) / 3, one step is max / 3
TermOf(mf_type, x, max, k) ==
    TermAt[TopWidth(mf_type),
           RAbs(FDiv(RSub(RMul(Int2R(3), x), Int2R((k - 4) * max)), Int2R(max)))]

\* the memberships of x in the seven terms
TermsOf(mf_type, x, max) == [k \in 1..7 |-> TermOf(mf_type, x, max, k)]

\* the level of the output term o after all the rules: the largest
\* min(e[i], ce[j]) among the rules (i, j) of the consequent names[o]
RuleLevel(me, mc, o) ==
    RMaxOf({Zero} \cup {RMin(me[p[1]], mc[p[2]]) :
                          p \in {q \in (1..7) \X (1..7) :
                                    rule_table[q[1]][q[2]] = names[o]}})

\* the levels of the seven output terms for the inputs (e, ce)
Levels[mf \in {"tri", "trap"}, e \in Int \X Int, ce \in Int \X Int] ==
    [o \in 1..7 |-> RuleLevel(TermsOf(mf, e, max_error),
                              TermsOf(mf, ce, max_delta_e), o)]

\* between two neighbouring centres, at the fraction s of the step: the
\* joined shape of the left term cut at a and the right term cut at b
Joined[w \in Int \X Int, a \in Int \X Int, b \in Int \X Int, s \in Int \X Int] ==
    RMax(RMin(a, TermAt[w, s]), RMin(b, TermAt[w, RSub(One, s)]))

\* the points of [0, 1] where the joined shape can bend
Bends(w, a, b) ==
    {Zero, One, <<1, 2>>, w, RSub(One, w),
     FMul(a, RSub(One, w)), RSub(One, FMul(a, RSub(One, w))),
     FMul(b, RSub(One, w)), RSub(One, FMul(b, RSub(One, w)))}

\* area and first moment of the straight piece from (l, f_l) to (r, f_r)
Piece[l \in Int \X Int, r \in Int \X Int, f_l \in Int \X Int, f_r \in Int \X Int] ==
    <<FMul(RSub(r, l), FDiv(RAdd(f_l, f_r), Int2R(2))),
      FMul(RSub(r, l),
           RAdd(FDiv(RAdd(FMul(l, f_l), FMul(r, f_r)), Int2R(3)),
                FDiv(RAdd(FMul(l, f_r), FMul(r, f_l)), Int2R(6))))>>

PairAdd(x, y) == <<RAdd(x[1], y[1]), RAdd(x[2], y[2])>>

\* area and first moment of the joined shape over [l, 1]
ShapeFrom[w \in Int \X Int, a \in Int \X Int, b \in Int \X Int, l \in Int \X Int] ==
    IF l = One THEN <<Zero, Zero>>
    ELSE PairAdd(Piece[l, RMinOf({p \in Bends(w, a, b) : RLt(l, p)}),
                       Joined[w, a, b, l],
                       Joined[w, a, b, RMinOf({p \in Bends(w, a, b) : RLt(l, p)})]],
                 ShapeFrom[w, a, b, RMinOf({p \in Bends(w, a, b) : RLt(l, p)})])

\* the same for the step t (1..6) between the centres of the terms t and t + 1,
\* the first moment taken from the centre of the first term
StepSums[t \in 1..6, shape \in (Int \X Int) \X (Int \X Int)] ==
    <<shape[1], RAdd(FMul(Int2R(t - 1), shape[1]), shape[2])>>

\* area and first moment of the output shape for the levels h, steps t..6
RECURSIVE OutputSums(_, _, _)
OutputSums(w, h, t) ==
    IF t > 6 THEN <<Zero, Zero>>
    ELSE PairAdd(StepSums[t, ShapeFrom[w, h[t], h[t + 1], Zero]],
                 OutputSums(w, h, t + 1))

\* the centroid of the output shape on the universe [-max_delta_u, max_delta_u];
\* 0.0 when compute() fails for an empty shape (the except branch)
Centroid[sums \in (Int \X Int) \X (Int \X Int)] ==
    IF sums[1] = Zero THEN Zero
    ELSE RAdd(Int2R(-max_delta_u),
              RMul(<<max_delta_u, 3>>, FDiv(sums[2], sums[1])))

\* np.linspace(-max, max, 30)[i] for i in 0..29
GridPoint(max, i) == Rat(-29 * max + 2 * max * i, 29)

\* cu_matrix[i, j] (i, j in 0..29) of the table built for mf_type
cu_matrix(mf, i, j) ==
    Round[Centroid[OutputSums(TopWidth(mf),
                              Levels[mf, GridPoint(max_error, i),
                                         GridPoint(max_delta_e, j)], 1)],
          StoreDigits]


\* floor(x)
Floor(x) == x[1] \div x[2]

\* the cell of the grid over [-max, max] that x is looked up in: the index
\* (0..28) of its left grid point; a point outside the grid takes the first
\* or the last cell
CellIndex(x, max) ==
    IF Floor(RDiv(RMul(RAdd(x, Int2R(max)), Int2R(29)), Int2R(2 * max))) < 0 THEN 0
    ELSE IF Floor(RDiv(RMul(RAdd(x, Int2R(max)), Int2R(29)), Int2R(2 * max))) > 28 THEN 28
    ELSE Floor(RDiv(RMul(RAdd(x, Int2R(max)), Int2R(29)), Int2R(2 * max)))

\* the distance of x from the left grid point of the cell k, in cells: below
\* 0 or above 1 for a point outside the grid
CellFraction(x, max, k) ==
    Round[RDiv(RMul(RSub(x, GridPoint(max, k)), Int2R(29)), Int2R(2 * max)),
          StoreDigits]

\* a + t * (b - a)
Lerp[a \in Int \X Int, b \in Int \X Int, t \in Int \X Int] ==
    Round[RAdd(a, RMul(t, RSub(b, a))), StoreDigits]

\* the linear interpolation in the cell (i, j) at the fractions (t, s); with
\* fill_value=None the same formula extrapolates outside the grid
InterpolateCell[mf \in {"tri", "trap"}, i \in 0..28, j \in 0..28, t \in Int \X Int, s \in Int \X Int] ==
    Lerp[Lerp[cu_matrix(mf, i, j), cu_matrix(mf, i, j + 1), s],
         Lerp[cu_matrix(mf, i + 1, j), cu_matrix(mf, i + 1, j + 1), s], t]

\* the table's value at the point of the grid nearest to (e, ce)
C24_ClampedLookup(mf, e, ce) ==
    InterpolateCell[mf, CellIndex(e, max_error), CellIndex(ce, max_delta_e),
        Clip(CellFraction(e, max_error, CellIndex(e, max_error)), Zero, One),
        Clip(CellFraction(ce, max_delta_e, CellIndex(ce, max_delta_e)), Zero, One)]

\* RegularGridInterpolator(..., bounds_error=False, fill_value=None)((e, ce))
\* for the table built for mf
Interpolator(mf, e, ce) ==
    InterpolateCell[mf, CellIndex(e, max_error), CellIndex(ce, max_delta_e),
                    CellFraction(e, max_error, CellIndex(e, max_error)),
                    CellFraction(ce, max_delta_e, CellIndex(ce, max_delta_e))]


-----------------------------------------------------------------------------
(* control_system.py: the vehicles, run_simulation and the /simulate route *)

VehicleRow(name, m, b, u_max) == [name |-> name, m |-> m, b |-> b, u_max |-> u_max]

\* the VEHICLES dict
VEHICLES ==
    [ferrari |-> VehicleRow("Ferrari 488", Int2R(1400), Int2R(20), Int2R(8000)),
     fiat |-> VehicleRow("Fiat Punto", Int2R(1100), Int2R(55), Int2R(2500)),
     truck |-> VehicleRow("Truck (TIR)", Int2R(15000), Int2R(150), Int2R(12000))]

\* build_interpolator(mf_type): the interpolator object; its table is
\* cu_matrix(mf_type, i, j)
build_interpolator(mf_type) == [table |-> mf_type]

\* the INTERPOLATORS dict after lines 92-95
INTERPOLATORS == [tri |-> build_interpolator("tri"), trap |-> build_interpolator("trap")]

\* d.get(key, default) for a dict d with string keys
dict_get(d, key, default) == IF key \in DOMAIN d THEN d[key] ELSE default

\* the time step of run_simulation
WebDt == <<3, 20>>

\* the float kept in a variable of run_simulation
Store(x) == Round[x, StoreDigits]

\* Vehicle.step(u) of a vehicle with the row car and the speed vv
WebVehicle_step(car, vv, u) ==
    RMax(Zero,
         Store(RAdd(vv, RMul(RDiv(RSub(Clip(u, Zero, car.u_max), RMul(car.b, vv)), car.m),
                             WebDt))))

\* the PID with its stored floats rounded
StorePID(c) == [c EXCEPT !.integral = Store(@), !.prev_error = Store(@)]

\* lines 138-162 of run_simulation: the local variables before the loop
WebLocals(a) ==
    [car |-> dict_get(VEHICLES, a.vehicle_key, VEHICLES["fiat"]),
     T_sim |-> a.sim_time,
     N |-> py_int(RDiv(a.sim_time, WebDt)) + 1,
     target_speed_ms |-> Store(RDiv(a.target_speed_kmh, <<18, 5>>)),
     pid |-> WebPID(a.Kp, a.Ki, a.Kd, WebDt,
                    dict_get(VEHICLES, a.vehicle_key, VEHICLES["fiat"]).u_max),
     veh_pid |-> Zero, veh_fuz |-> Zero,
     current_fuzzy |-> a.current_fuzzy,
     u_fuz_acc |-> Zero, prev_e |-> Zero,
     e |-> Zero, ce |-> Zero, du |-> Zero,
     res_v_pid |-> <<>>, res_v_fuz |-> <<>>, res_u_pid |-> <<>>, res_u_fuz |-> <<>>,
     k |-> 0]

\* setpoint_ms[k]: zeros(N) with setpoint_ms[int(3 / dt):] = target_speed_ms
setpoint_ms(loc, k) ==
    IF k >= py_int(RDiv(Int2R(3), WebDt)) THEN loc.target_speed_ms ELSE Zero

\* the fuzzy half of one iteration (lines 173-180, 183, 185) given the error e,
\* its change ce and the table value du
WebFuzzyHalf(loc, e, ce, du) ==
    [loc EXCEPT
        !.e = e, !.ce = ce, !.du = du,
        !.u_fuz_acc = Store(RAdd(loc.u_fuz_acc, du)),
        !.veh_fuz = WebVehicle_step(loc.car, loc.veh_fuz,
                        Clip(Store(RAdd(loc.u_fuz_acc, du)), Zero, loc.car.u_max)),
        !.prev_e = e,
        !.res_v_fuz = Append(@, Store(RMul(loc.veh_fuz, <<18, 5>>))),
        !.res_u_fuz = Append(@, Clip(Store(RAdd(loc.u_fuz_acc, du)), Zero, loc.car.u_max)),
        !.k = @ + 1]

\* the PID half of one iteration (lines 168-170, 182, 184) given the result r
\* of pid.compute(sp, vp)
WebPIDHalf(loc, r) ==
    [loc EXCEPT
        !.pid = StorePID(r.c),
        !.veh_pid = WebVehicle_step(loc.car, loc.veh_pid, Store(r.u)),
        !.res_v_pid = Append(@, Store(RMul(loc.veh_pid, <<18, 5>>))),
        !.res_u_pid = Append(@, Store(r.u))]

\* the error and its change of one iteration (lines 173-174)
WebErrors(loc) ==
    <<RSub(setpoint_ms(loc, loc.k), loc.veh_fuz),
      Store(RDiv(RSub(RSub(setpoint_ms(loc, loc.k), loc.veh_fuz), loc.prev_e), WebDt))>>

\* one iteration of the loop of run_simulation (lines 164-185): the set of
\* the one record of locals after it; du = current_fuzzy((e, ce)) is looked
\* up once
WebIteration(loc) ==
    UNION {{WebFuzzyHalf(WebPIDHalf(loc, WebPID_compute(loc.pid, setpoint_ms(loc, loc.k),
                                                         loc.veh_pid)),
                         ec[1], ec[2], du) :
                du \in {Interpolator(loc.current_fuzzy.table, ec[1], ec[2])}} :
           ec \in {WebErrors(loc)}}

\* lines 187-208: what run_simulation returns (the series and their labels)
WebResult(a, loc) ==
    [status |-> 200,
     title |-> loc.car.name,
     mf_label |-> IF a.mf_type = "tri" THEN "Triangular" ELSE "Trapezoidal",
     time |-> [i \in 1..loc.N |-> linspace(Zero, loc.T_sim, loc.N, i - 1)],
     res_v_pid |-> loc.res_v_pid, res_v_fuz |-> loc.res_v_fuz,
     res_u_pid |-> loc.res_u_pid, res_u_fuz |-> loc.res_u_fuz]

\* float(s) for the strings of the requests: the value, or ValueError
ValueError == <<"ValueError">>
float_of(s) ==
    CASE s = "0.3" -> <<3, 10>>
      [] s = "3.5" -> <<7, 2>>
      [] s = "4" -> Int2R(4)
      [] s = "15" -> Int2R(15)
      [] s = "50" -> Int2R(50)
      [] s = "70" -> Int2R(70)
      [] s = "72" -> Int2R(72)
      [] s = "90" -> Int2R(90)
      [] s = "100" -> Int2R(100)
      [] s = "300" -> Int2R(300)
      [] OTHER -> ValueError

\* float(request.form.get(key, default)): float of a default is the default
form_float(form, key, default) ==
    IF key \in DOMAIN form THEN float_of(form[key]) ELSE Int2R(default)

\* the form read with other defaults for the gains
WebParsedOtherDefaults(form) ==
    <<form_float(form, "kp", 30), form_float(form, "ki", 15),
      form_float(form, "kd", 5), form_float(form, "speed", 72),
      form_float(form, "time", 70)>>

\* lines 433-439 of the route: the values read from the form, in the order
\* they are read
WebParsed(form) ==
    <<form_float(form, "kp", 300), form_float(form, "ki", 15),
      form_float(form, "kd", 50), form_float(form, "speed", 72),
      form_float(form, "time", 70)>>

\* the arguments of the call run_simulation(v, kp, ki, kd, speed_kmh,
\* sim_time, mf_type) made by the route, with the table it will use (line 152)
WebArgs(form) ==
    [vehicle_key |-> dict_get(form, "vehicle", "fiat"),
     mf_type |-> dict_get(form, "mf_type", "tri"),
     Kp |-> WebParsed(form)[1], Ki |-> WebParsed(form)[2], Kd |-> WebParsed(form)[3],
     target_speed_kmh |-> WebParsed(form)[4], sim_time |-> WebParsed(form)[5],
     current_fuzzy |-> dict_get(web.INTERPOLATORS, dict_get(form, "mf_type", "tri"),
                                web.INTERPOLATORS["tri"])]


-----------------------------------------------------------------------------
(* control_system.py as a process: the import of the module, then requests  *)
(* to /simulate served by concurrent threads.  web.calls[id] is the         *)
(* activation of the route in thread id: its position, the form, the         *)
(* arguments and the locals of run_simulation, and the response; alone is    *)
(* the same call made in a process that serves no other request.             *)

\* threads serving requests
MaxWebThreads == 2

\* iterations of the loop of run_simulation made by one call
MaxWebSteps == 27

WebThreads == 1..MaxWebThreads

\* the forms posted to /simulate
FormDefault == [x \in {} |-> ""]
FormLong == [vehicle |-> "fiat", mf_type |-> "tri", speed |-> "72", time |-> "4"]
FormFast == [vehicle |-> "fiat", mf_type |-> "tri", kp |-> "300", ki |-> "15",
             kd |-> "50", speed |-> "90", time |-> "3.5"]
FormTruck == [vehicle |-> "truck", mf_type |-> "trap", speed |-> "90", time |-> "3.5"]
FormUnknown == [vehicle |-> "tesla", mf_type |-> "gauss", time |-> "0.3"]
FormShort == [vehicle |-> "ferrari", mf_type |-> "trap", kp |-> "100", time |-> "0.3"]
FormBad == [kp |-> "abc", time |-> "0.3"]
WebForms == {FormDefault, FormLong, FormFast, FormTruck, FormUnknown, FormShort, FormBad}

\* the forms of the requests a thread serves when the threads serve together:
\* one long request, short ones beside it, and requests that are refused
WebThreadForms(id) ==
    IF id = 1 THEN {FormFast}
    ELSE IF id = 2 THEN {FormUnknown, FormShort, FormBad}
    ELSE {FormBad}

\* a thread that serves no request
WebIdle == [pc |-> "idle"]

\* the locals kept in module globals: every call inside the loop sees the
\* locals written last
WebStoreShared(calls, id, rec) ==
    [i \in DOMAIN calls |->
        IF i = id THEN rec
        ELSE IF calls[i].pc = "loop" /\ rec.pc = "loop"
             THEN [calls[i] EXCEPT !.loc = rec.loc]
             ELSE calls[i]]

\* the locals of a call are its own: the activation of thread id becomes rec
WebStore(calls, id, rec) == [calls EXCEPT ![id] = rec]

\* lines 14-95 at import: VEHICLES, then INTERPOLATORS built once per key;
\* the server then accepts requests
import_module ==
    /\ web.phase = "import"
    /\ web' = [phase |-> "serving",
               VEHICLES |-> VEHICLES,
               INTERPOLATORS |-> INTERPOLATORS,
               builds |-> [tri |-> 1, trap |-> 1],
               calls |-> [id \in WebThreads |-> WebIdle]]
    /\ UNCHANGED <<v, params, pid, webpid, fuzzy, twin, sim, last, ncalls>>

\* the route /simulate up to the loop of run_simulation: a float() that
\* raises is caught and answered by the error response
simulate(id, form) ==
    /\ web.phase = "serving"
    /\ web.calls[id].pc = "idle"
    /\ IF ValueError \in {WebParsed(form)[i] : i \in 1..5}
       THEN web' = [web EXCEPT !.calls = WebStore(web.calls, id,
                        [pc |-> "responded", form |-> form,
                         response |-> [status |-> 500, error |-> ValueError]])]
       ELSE web' = [web EXCEPT !.calls = WebStore(web.calls, id,
                        [pc |-> "loop", form |-> form, response |-> None,
                         args |-> WebArgs(form),
                         loc |-> WebLocals(WebArgs(form)),
                         alone |-> WebLocals(WebArgs(form))])]
    /\ UNCHANGED <<v, params, pid, webpid, fuzzy, twin, sim, last, ncalls>>

\* one iteration of the loop of run_simulation in thread id; the call made
\* alone makes the same iteration on its own locals (equal locals give the
\* same iteration)
run_simulation_iteration(id) ==
    /\ web.phase = "serving"
    /\ web.calls[id].pc = "loop"
    /\ web.calls[id].loc.k < web.calls[id].loc.N
    /\ web.calls[id].loc.k < MaxWebSteps
    /\ \E nxt \in WebIteration(web.calls[id].loc) :
       \E nxtAlone \in (IF web.calls[id].alone = web.calls[id].loc THEN {nxt}
                        ELSE WebIteration(web.calls[id].alone)) :
           web' = [web EXCEPT !.calls = WebStore(web.calls, id,
                       [web.calls[id] EXCEPT !.loc = nxt, !.alone = nxtAlone])]
    /\ UNCHANGED <<v, params, pid, webpid, fuzzy, twin, sim, last, ncalls>>

\* the end of run_simulation and of the route in thread id: the response
run_simulation_return(id) ==
    /\ web.phase = "serving"
    /\ web.calls[id].pc = "loop"
    /\ web.calls[id].loc.k = web.calls[id].loc.N
    /\ web' = [web EXCEPT !.calls = WebStore(web.calls, id,
                   [web.calls[id] EXCEPT
                       !.pc = "responded",
                       !.response = WebResult(web.calls[id].args, web.calls[id].loc)])]
    /\ UNCHANGED <<v, params, pid, webpid, fuzzy, twin, sim, last, ncalls>>

InitWeb == InitObjects /\ params = FerrariCar

\* one thread serves one request
NextWeb ==
    \/ import_module
    \/ \E form \in WebForms : simulate(1, form)
    \/ run_simulation_iteration(1)
    \/ run_simulation_return(1)

SpecWeb == InitWeb /\ [][NextWeb]_vars

\* every thread serves one request
NextWebThreads ==
    \/ import_module
    \/ \E id \in WebThreads : \E form \in WebThreadForms(id) : simulate(id, form)
    \/ \E id \in WebThreads : run_simulation_iteration(id)
    \/ \E id \in WebThreads : run_simulation_return(id)

SpecWebThreads == InitWeb /\ [][NextWebThreads]_vars


-----------------------------------------------------------------------------
(* Claims about the web variant *)

\* thread id has made the call run_simulation(...) of its request
WebCalled(id) ==
    /\ web.phase = "serving"
    /\ web.calls[id].pc # "idle"
    /\ "loc" \in DOMAIN web.calls[id]

\* thread id has answered its request with a result
WebAnswered(id) ==
    /\ WebCalled(id)
    /\ web.calls[id].pc = "responded"

\* C23: the tables are built exactly once, at import and before any request
\* is served; a request never writes INTERPOLATORS or VEHICLES; and whatever
\* the other thread does, the locals and the result of a call are those of
\* the same call made alone.
C23_RequestsDoNotInterfere ==
    /\ web.phase = "import" => "calls" \notin DOMAIN web
    /\ web.phase = "serving" =>
        /\ web.builds = [tri |-> 1, trap |-> 1]
        /\ web.INTERPOLATORS = INTERPOLATORS
        /\ web.VEHICLES = VEHICLES
        /\ \A id \in WebThreads :
            /\ WebCalled(id) => web.calls[id].loc = web.calls[id].alone
            /\ WebAnswered(id) =>
                web.calls[id].response = WebResult(web.calls[id].args, web.calls[id].alone)

\* both threads are inside run_simulation, the first past the setpoint jump
C23_Witness ==
    /\ web.phase = "serving"
    /\ \A id \in {1, 2} : WebCalled(id) /\ web.calls[id].loc.k > 0
    /\ web.calls[1].loc.k > 20
    /\ web.calls[1].loc.veh_fuz # Zero
    /\ web.calls[2].pc = "loop"

\* the point (e, ce) lies outside the grid of the table
C24_OutsideGrid(e, ce) ==
    \/ RLt(e, Int2R(-max_error)) \/ RLt(Int2R(max_error), e)
    \/ RLt(ce, Int2R(-max_delta_e)) \/ RLt(Int2R(max_delta_e), ce)

\* C24: in run_simulation a lookup at a point outside the grid
\* [-25, 25] x [-5, 5] returns a number, and that number is the table's value
\* at the nearest point of the grid's edge (the inputs are clamped).
C24_LookupOutsideGridClamps ==
    \A id \in WebThreads :
        (WebCalled(id) /\ web.calls[id].loc.k > 0
            /\ C24_OutsideGrid(web.calls[id].loc.e, web.calls[id].loc.ce))
        => /\ web.calls[id].loc.du \in Int \X Int
           /\ web.calls[id].loc.du =
                C24_ClampedLookup(web.calls[id].loc.current_fuzzy.table,
                                    web.calls[id].loc.e, web.calls[id].loc.ce)

\* the value a request's numeric field must give: the default when absent
C25_Field(form, key, default) ==
    IF key \in DOMAIN form THEN float_of(form[key]) ELSE Int2R(default)

\* the strings of the requests that are numbers
C25_Numeric ==
    {"0.3", "3.5", "4", "15", "50", "70", "72", "90", "100", "300"}

\* C25: the route takes vehicle 'fiat', kp 300, ki 15, kd 50, speed 72,
\* time 70 and mf_type 'tri' for absent fields; run_simulation falls back to
\* the 'fiat' row for an unknown vehicle and to the triangular table for an
\* unknown mf_type without raising; a numeric field that is not a number is
\* answered by an error response, not a result.
C25_DefaultsAndFallbacks ==
    web.phase = "serving" =>
    \A id \in WebThreads : web.calls[id].pc # "idle" =>
        IF \E key \in {"kp", "ki", "kd", "speed", "time"} \cap DOMAIN web.calls[id].form :
               web.calls[id].form[key] \notin C25_Numeric
        THEN /\ web.calls[id].pc = "responded"
             /\ web.calls[id].response.status = 500
             /\ "loc" \notin DOMAIN web.calls[id]
        ELSE /\ web.calls[id].args.vehicle_key =
                    (IF "vehicle" \in DOMAIN web.calls[id].form
                     THEN web.calls[id].form["vehicle"] ELSE "fiat")
             /\ web.calls[id].args.mf_type =
                    (IF "mf_type" \in DOMAIN web.calls[id].form
                     THEN web.calls[id].form["mf_type"] ELSE "tri")
             /\ web.calls[id].args.Kp = C25_Field(web.calls[id].form, "kp", 300)
             /\ web.calls[id].args.Ki = C25_Field(web.calls[id].form, "ki", 15)
             /\ web.calls[id].args.Kd = C25_Field(web.calls[id].form, "kd", 50)
             /\ web.calls[id].args.target_speed_kmh = C25_Field(web.calls[id].form, "speed", 72)
             /\ web.calls[id].args.sim_time = C25_Field(web.calls[id].form, "time", 70)
             /\ web.calls[id].loc.car =
                    (IF web.calls[id].args.vehicle_key \in {"ferrari", "fiat", "truck"}
                     THEN VEHICLES[web.calls[id].args.vehicle_key] ELSE VEHICLES["fiat"])
             /\ web.calls[id].loc.current_fuzzy.table =
                    (IF web.calls[id].args.mf_type \in {"tri", "trap"}
                     THEN web.calls[id].args.mf_type ELSE "tri")
             /\ web.calls[id].pc = "responded" => web.calls[id].response.status = 200

\* a request naming an unknown vehicle and an unknown mf_type, without the
\* gains and the speed, has been answered with a result
C25_Witness ==
    /\ WebAnswered(1)
    /\ web.calls[1].form = FormUnknown
    /\ web.calls[1].response.status = 200
    /\ web.calls[1].loc.car.name = "Fiat Punto"
    /\ web.calls[1].args.Kp = Int2R(300)

\* C28: in run_simulation the accumulated fuzzy control u_fuz_acc stays
\* within [0, u_max] of the vehicle at every step.
C28_AccumulatorWithinLimits ==
    \A id \in WebThreads : WebCalled(id) =>
        /\ RLe(Zero, web.calls[id].loc.u_fuz_acc)
        /\ RLe(web.calls[id].loc.u_fuz_acc, web.calls[id].loc.car.u_max)

\* C30: the mf_label of a result ('Triangular' or 'Trapezoidal') names the
\* table the run used, also for an mf_type other than 'tri' and 'trap'.
C30_LabelNamesTableUsed ==
    \A id \in WebThreads : WebAnswered(id) =>
        /\ web.calls[id].response.mf_label \in {"Triangular", "Trapezoidal"}
        /\ web.calls[id].response.mf_label = "Triangular"
            <=> web.calls[id].loc.current_fuzzy = web.INTERPOLATORS["tri"]
        /\ web.calls[id].response.mf_label = "Trapezoidal"
            <=> web.calls[id].loc.current_fuzzy = web.INTERPOLATORS["trap"]

=============================================================================
